---- MODULE Spec2Model ----
(***************************************************************************)
(* The browser agent of google/computer-use-preview: the agent loop of     *)
(* src/agent.py (BrowserAgent), the derived agent of src/form_agent.py     *)
(* (FormAgent), the credential helpers and the retry wrapper.              *)
(*                                                                         *)
(* Strings the code transforms (upper, lower, replace, endswith, join)     *)
(* are sequences of one-character strings, so that the transformations     *)
(* are computed and not assumed.  Strings that are only compared or passed *)
(* on (secret values, typed text, urls) are TLA+ strings.                  *)
(***************************************************************************)
EXTENDS Integers, Sequences, FiniteSets, TLC

(* ------------------------------------------------------------------ *)
(* Bounds of the exploration                                           *)
(* ------------------------------------------------------------------ *)

\* longest Conversation explored in an ordinary session
MaxTurns == 5
\* longest Conversation explored in a long session (screenshot retention)
MaxLongTurns == 12
\* most Parts in one model Turn
MaxParts == 2
\* most invalid answers the user gives to safety prompts in one session
MaxInvalidInputs == 1
\* largest max_retries / base_delay_s handed to get_model_response on its own
MaxRetriesArg == 5
MaxBaseDelayArg == 2
\* most variables in a credential store explored on its own
MaxStoreSize == 3

(* ------------------------------------------------------------------ *)
(* Python string operations                                            *)
(* ------------------------------------------------------------------ *)

LowerLetters ==
  << "a","b","c","d","e","f","g","h","i","j","k","l","m",
     "n","o","p","q","r","s","t","u","v","w","x","y","z" >>

UpperLetters ==
  << "A","B","C","D","E","F","G","H","I","J","K","L","M",
     "N","O","P","Q","R","S","T","U","V","W","X","Y","Z" >>

upper_char(c) ==
  IF \E i \in 1..26 : LowerLetters[i] = c
  THEN UpperLetters[CHOOSE i \in 1..26 : LowerLetters[i] = c]
  ELSE c

lower_char(c) ==
  IF \E i \in 1..26 : UpperLetters[i] = c
  THEN LowerLetters[CHOOSE i \in 1..26 : UpperLetters[i] = c]
  ELSE c

\* str.upper()
str_upper(s) == [i \in 1..Len(s) |-> upper_char(s[i])]

\* str.lower()
str_lower(s) == [i \in 1..Len(s) |-> lower_char(s[i])]

\* str.endswith(suffix)
str_endswith(s, suffix) ==
  /\ Len(s) >= Len(suffix)
  /\ SubSeq(s, Len(s) - Len(suffix) + 1, Len(s)) = suffix

\* str.startswith(prefix), used by replace
str_startswith(s, prefix) ==
  /\ Len(s) >= Len(prefix)
  /\ SubSeq(s, 1, Len(prefix)) = prefix

\* str.replace(old, ''): every non-overlapping occurrence, left to right
RECURSIVE str_remove(_, _)
str_remove(s, old) ==
  IF s = << >> THEN << >>
  ELSE IF str_startswith(s, old)
       THEN str_remove(SubSeq(s, Len(old) + 1, Len(s)), old)
       ELSE << s[1] >> \o str_remove(Tail(s), old)

\* sep.join(list)
RECURSIVE str_join(_, _)
str_join(sep, list) ==
  IF list = << >> THEN << >>
  ELSE IF Len(list) = 1 THEN list[1]
       ELSE list[1] \o sep \o str_join(sep, Tail(list))

USERNAME_SUFFIX == << "_","U","S","E","R","N","A","M","E" >>
USER_SUFFIX     == << "_","U","S","E","R" >>
PASSWORD_SUFFIX == << "_","P","A","S","S","W","O","R","D" >>

(* ------------------------------------------------------------------ *)
(* os.environ: an ordered mapping, a sequence of <<key, value>> with   *)
(* distinct keys.  None is << >>, a present value v is << v >>.        *)
(* ------------------------------------------------------------------ *)

None == << >>

environ_keys(env) == [i \in 1..Len(env) |-> env[i][1]]

environ_has(env, key) == \E i \in 1..Len(env) : env[i][1] = key

\* os.environ.get(key)
environ_get(env, key) ==
  IF environ_has(env, key)
  THEN << env[CHOOSE i \in 1..Len(env) : env[i][1] = key][2] >>
  ELSE None

\* truth value of an Optional[str]
truthy(opt) == opt # None /\ opt[1] # ""

(* ------------------------------------------------------------------ *)
(* Custom tools of src/agent.py                                        *)
(* ------------------------------------------------------------------ *)

multiply_numbers(x, y) == [result |-> x * y]

\* the sites the loop over os.environ.keys() collects, in order
RECURSIVE available_sites_from(_, _)
available_sites_from(env, vars) ==
  IF vars = << >> THEN << >>
  ELSE LET var  == vars[1]
           site == str_remove(str_remove(var, USERNAME_SUFFIX), USER_SUFFIX)
           rest == available_sites_from(env, Tail(vars))
       IN IF /\ (str_endswith(var, USERNAME_SUFFIX) \/ str_endswith(var, USER_SUFFIX))
             /\ environ_has(env, site \o PASSWORD_SUFFIX)
          THEN << str_lower(site) >> \o rest
          ELSE rest

get_available_credentials(env) ==
  LET available_sites == available_sites_from(env, environ_keys(env))
  IN [ available_sites |-> available_sites,
       message |-> << "Credentials are securely stored for: ",
                      IF available_sites # << >>
                      THEN str_join(<< ",", " " >>, available_sites)
                      ELSE << "n","o"," ","s","i","t","e","s" >>,
                      ". Use perform_secure_login() to authenticate." >> ]

perform_secure_login(env, site) ==
  LET site_upper   == str_upper(site)
      password_key == site_upper \o PASSWORD_SUFFIX
      username_key == IF environ_has(env, site_upper \o USERNAME_SUFFIX)
                      THEN site_upper \o USERNAME_SUFFIX
                      ELSE site_upper \o USER_SUFFIX
      username     == environ_get(env, username_key)
      password     == environ_get(env, password_key)
  IN IF truthy(username) /\ truthy(password)
     THEN [ success  |-> TRUE,
            message  |-> << "Credentials retrieved for ", site,
                            ". Ready to perform login." >>,
            username |-> username,
            password |-> password ]
     ELSE [ success  |-> FALSE,
            message  |-> << "No credentials found for ", site,
                            ". Expected environment variables: ",
                            username_key, " and ", password_key >>,
            username |-> None,
            password |-> None ]

(* ------------------------------------------------------------------ *)
(* Program constants                                                   *)
(* ------------------------------------------------------------------ *)

MAX_RECENT_TURN_WITH_SCREENSHOTS == 3

PREDEFINED_COMPUTER_USE_FUNCTIONS ==
  { "open_web_browser", "click_at", "hover_at", "type_text_at",
    "scroll_document", "scroll_at", "wait_5_seconds", "go_back",
    "go_forward", "search", "navigate", "key_combination", "drag_and_drop" }

\* defaults of get_model_response(max_retries=5, base_delay_s=1)
DEFAULT_MAX_RETRIES == 5
DEFAULT_BASE_DELAY_S == 1

USERNAME_PLACEHOLDER == "{{USERNAME}}"
PASSWORD_PLACEHOLDER == "{{PASSWORD}}"

REQUIRE_CONFIRMATION == "require_confirmation"

\* the answers the confirmation prompt accepts, and those that decline
ACCEPTED_ANSWERS == { <<"y">>, <<"n">>, <<"y","e">>, <<"y","e","s">>, <<"n","o">> }
DECLINING_ANSWERS == { <<"n">>, <<"n","o">> }

(* ------------------------------------------------------------------ *)
(* Dictionaries: functions from string keys.  {} is EmptyDict.         *)
(* ------------------------------------------------------------------ *)

EmptyDict == [k \in {} |-> ""]

dict_has(d, key) == key \in DOMAIN d

\* {**a, **b}
dict_merge(a, b) == b @@ a

(* ------------------------------------------------------------------ *)
(* The browser backend (computers.Computer, not part of these sources) *)
(* ------------------------------------------------------------------ *)

\* every backend operation returns the state after the action
EnvState == [type |-> "EnvState", url |-> "https://page", screenshot |-> "png"]

isinstance_EnvState(v) == dict_has(v, "type") /\ v.type = "EnvState"

isinstance_dict(v) == dict_has(v, "type") /\ v.type = "dict"

\* a dict value returned by a tool: the mapping itself is v.value
as_dict(mapping) == [type |-> "dict", value |-> mapping]

\* a JSON document whose top level is an array
as_list(items) == [type |-> "list", value |-> items]

(* ------------------------------------------------------------------ *)
(* BrowserAgent.handle_action / FormAgent.handle_action                *)
(*                                                                     *)
(* The value is what the call does: how it ends (return / raise), the  *)
(* value returned, the Vault afterwards and the backend call issued    *)
(* (None, or << [op, kwargs] >>).                                      *)
(* ------------------------------------------------------------------ *)

returns(value, creds, call) ==
  [outcome |-> "return", value |-> value, temp_credentials |-> creds, call |-> call]

raises(error, creds) ==
  [outcome |-> "raise", value |-> error, temp_credentials |-> creds, call |-> None]

arg_or(args, key, default) == IF dict_has(args, key) THEN args[key] ELSE default

\* lines 246-251: the placeholder substitution of type_text_at
\* a bug the substitution could have: the username typed for both placeholders
substitute_placeholder_username_only(text, creds) ==
  IF text = USERNAME_PLACEHOLDER /\ dict_has(creds, "username") THEN creds["username"]
  ELSE IF text = PASSWORD_PLACEHOLDER /\ dict_has(creds, "username") THEN creds["username"]
  ELSE text

substitute_placeholder(text, creds) ==
  IF text = USERNAME_PLACEHOLDER /\ dict_has(creds, "username") THEN creds["username"]
  ELSE IF text = PASSWORD_PLACEHOLDER /\ dict_has(creds, "password") THEN creds["password"]
  ELSE text

\* lines 307-321: the result of perform_secure_login as the model sees it
\* a bug the sanitising could have: the username is passed on
safe_result_with_username(result) ==
  IF result.success
  THEN [success |-> result.success, message |-> result.message,
        username |-> result.username,
        instruction |-> "Credentials loaded. Use type_text_at with {{USERNAME}} and {{PASSWORD}} placeholders to enter credentials in the appropriate fields."]
  ELSE [success |-> result.success, message |-> result.message]

\* another one: the result of perform_secure_login is passed on as it is
safe_result_unsanitized(result) ==
  IF result.success
  THEN result @@ [instruction |-> "Credentials loaded. Use type_text_at with {{USERNAME}} and {{PASSWORD}} placeholders to enter credentials in the appropriate fields."]
  ELSE result

safe_result(result) ==
  IF result.success
  THEN [success |-> result.success, message |-> result.message,
        instruction |-> "Credentials loaded. Use type_text_at with {{USERNAME}} and {{PASSWORD}} placeholders to enter credentials in the appropriate fields."]
  ELSE [success |-> result.success, message |-> result.message]

\* a bug the handler could have: a failed retrieval empties the Vault
stored_credentials_cleared_on_failure(result, creds) ==
  IF result.success
  THEN [username |-> result.username[1], password |-> result.password[1]]
  ELSE EmptyDict

\* lines 313-317: the Vault after perform_secure_login returned result
stored_credentials(result, creds) ==
  IF result.success
  THEN [username |-> result.username[1], password |-> result.password[1]]
  ELSE creds

\* the screen of the backend: PLAYWRIGHT_SCREEN_SIZE of src/main.py
SCREEN_WIDTH == 1440
SCREEN_HEIGHT == 900

\* int(v / 1000 * d) in double precision: v / 1000 is rounded to a double
\* before the product is taken, and for these (v, d) the product falls just
\* below the integer v * d / 1000, so that int() yields one less.
FLOAT_PRODUCT_BELOW == { <<175, 1440>>, <<350, 1440>>, <<575, 1440>>, <<700, 1440>> }

denormalize(v, d) ==
  IF <<v, d>> \in FLOAT_PRODUCT_BELOW THEN ((v * d) \div 1000) - 1
  ELSE (v * d) \div 1000

denormalize_x(x) == denormalize(x, SCREEN_WIDTH)

\* a bug the mapper could have: the height scaled by the width
denormalize_y_by_width(y) == denormalize(y, SCREEN_WIDTH)

denormalize_y(y) == denormalize(y, SCREEN_HEIGHT)

\* str.split(sep) for a one-character separator
RECURSIVE str_split(_, _)
str_split(s, sep) ==
  IF \E i \in 1..Len(s) : s[i] = sep
  THEN LET i == CHOOSE j \in 1..Len(s) :
                  s[j] = sep /\ \A k \in 1..(j - 1) : s[k] # sep
       IN << SubSeq(s, 1, i - 1) >> \o str_split(SubSeq(s, i + 1, Len(s)), sep)
  ELSE << s >>

BrowserAgent_handle_action(action, creds, env) ==
  LET name == action.name
      args == action.args
      xy   == [x |-> denormalize_x(args.x), y |-> denormalize_y(args.y)]
      backend(kwargs) == returns(EnvState, creds, << [op |-> name, kwargs |-> kwargs] >>)
  IN CASE name = "open_web_browser" -> backend(EmptyDict)
       [] name = "click_at" -> backend(xy)
       [] name = "hover_at" -> backend(xy)
       [] name = "type_text_at" ->
            backend(xy @@ [text |-> substitute_placeholder(args.text, creds),
                           press_enter |-> arg_or(args, "press_enter", FALSE),
                           clear_before_typing |->
                             arg_or(args, "clear_before_typing", TRUE)])
       [] name = "scroll_document" -> backend([direction |-> args.direction])
       [] name = "scroll_at" ->
            LET magnitude == arg_or(args, "magnitude", 800)
            IN IF args.direction \in { "up", "down" }
               THEN backend(xy @@ [direction |-> args.direction,
                                   magnitude |-> denormalize_y(magnitude)])
               ELSE IF args.direction \in { "left", "right" }
                    THEN backend(xy @@ [direction |-> args.direction,
                                        magnitude |-> denormalize_x(magnitude)])
                    ELSE raises("ValueError: Unknown direction", creds)
       [] name = "wait_5_seconds" -> backend(EmptyDict)
       [] name = "go_back" -> backend(EmptyDict)
       [] name = "go_forward" -> backend(EmptyDict)
       [] name = "search" -> backend(EmptyDict)
       [] name = "navigate" -> backend([url |-> args.url])
       [] name = "key_combination" ->
            backend([keys |-> str_split(args.keys, "+")])
       [] name = "drag_and_drop" ->
            backend(xy @@ [destination_x |-> denormalize_x(args.destination_x),
                           destination_y |-> denormalize_y(args.destination_y)])
       [] name = "multiply_numbers" ->
            returns(as_dict(multiply_numbers(args.x, args.y)), creds, None)
       [] name = "get_available_credentials" ->
            returns(as_dict(get_available_credentials(env)), creds, None)
       [] name = "perform_secure_login" ->
            LET result == perform_secure_login(env, args.site)
            IN returns(as_dict(safe_result(result)),
                       stored_credentials(result, creds), None)
       [] OTHER -> raises("ValueError: Unsupported function", creds)

\* a bug FormAgent could have: ask_for_help is handled although the agent
\* was constructed without it
FormAgent_handle_action_always_asks(action, creds, env, can_ask_for_help, ext) ==
  IF action.name = "read_data_from_json"
  THEN returns(ext.json, creds, None)
  ELSE IF action.name = "ask_for_help"
       THEN returns(as_dict([response |-> ext.stdin]), creds, None)
       ELSE BrowserAgent_handle_action(action, creds, env)

\* ext: what the outside world supplies to the call, [json, stdin]
FormAgent_handle_action(action, creds, env, can_ask_for_help, ext) ==
  IF action.name = "read_data_from_json"
  THEN returns(ext.json, creds, None)
  ELSE IF action.name = "ask_for_help" /\ can_ask_for_help
       THEN returns(as_dict([response |-> ext.stdin]), creds, None)
       ELSE BrowserAgent_handle_action(action, creds, env)

handle_action(agent_class, action, creds, env, can_ask_for_help, ext) ==
  IF agent_class = "FormAgent"
  THEN FormAgent_handle_action(action, creds, env, can_ask_for_help, ext)
  ELSE BrowserAgent_handle_action(action, creds, env)

(* ------------------------------------------------------------------ *)
(* Conversation: Content (a Turn) = [role, parts]; a Part is one of    *)
(*   [kind |-> "text", text]                                           *)
(*   [kind |-> "function_call", function_call |-> [name, args]]        *)
(*   [kind |-> "function_response",                                    *)
(*      function_response |-> [name, response, parts]]                 *)
(* where function_response.parts is None or << blob >> (the screenshot)*)
(* ------------------------------------------------------------------ *)

text_part(text) == [kind |-> "text", text |-> text]

call_part(name, args) ==
  [kind |-> "function_call", function_call |-> [name |-> name, args |-> args]]

\* a bug get_text could have: only the first text Part is returned
get_text_first_only(candidate) ==
  IF candidate.content = None \/ candidate.content[1].parts = << >> THEN None
  ELSE LET text == SelectSeq(candidate.content[1].parts,
                             LAMBDA part : part.kind = "text" /\ part.text # << >>)
       IN IF text = << >> THEN None ELSE << text[1].text >>

\* BrowserAgent.get_text: None, or << the texts joined by a space >>
get_text(candidate) ==
  IF candidate.content = None \/ candidate.content[1].parts = << >> THEN None
  ELSE LET parts == candidate.content[1].parts
           text  == SelectSeq(parts, LAMBDA part : part.kind = "text" /\ part.text # << >>)
           joined == str_join(<< " " >>, [i \in 1..Len(text) |-> text[i].text])
       IN IF joined = << >> THEN None ELSE << joined >>

\* BrowserAgent.extract_function_calls
extract_function_calls(candidate) ==
  IF candidate.content = None \/ candidate.content[1].parts = << >> THEN << >>
  ELSE LET calls == SelectSeq(candidate.content[1].parts,
                              LAMBDA part : part.kind = "function_call")
       IN [i \in 1..Len(calls) |-> calls[i].function_call]

\* a bug the iteration could have: a malformed response is not retried
malformed_retry_never(found, reasoning, candidate) == FALSE

\* lines 407-411: nothing usable came back and the service says the function
\* call was malformed
malformed_retry(found, reasoning, candidate) ==
  /\ found = << >>
  /\ reasoning = None
  /\ candidate.finish_reason = "MALFORMED_FUNCTION_CALL"

\* a bug the iteration could have: the text is kept as soon as it is read
final_reasoning_eager(found, reasoning, candidate, previous) == reasoning

\* lines 406-417: self.final_reasoning when the response has been examined;
\* it is assigned where the iteration returns COMPLETE for want of requests
final_reasoning_after(found, reasoning, candidate, previous) ==
  IF malformed_retry(found, reasoning, candidate) THEN previous
  ELSE IF found = << >> THEN reasoning
       ELSE previous

\* lines 458-478: the FunctionResponse built from the value a handler returned;
\* << >> when the value is neither an EnvState nor a dict
function_response_for(name, fc_result, extra) ==
  IF isinstance_EnvState(fc_result)
  THEN << [name |-> name,
           response |-> dict_merge([url |-> fc_result.url], extra),
           parts |-> << [mime_type |-> "image/png", data |-> fc_result.screenshot] >>] >>
  ELSE IF isinstance_dict(fc_result)
       THEN << [name |-> name, response |-> fc_result.value, parts |-> None] >>
       ELSE << >>

\* lines 480-485: the user Turn of the collected responses
user_turn(responses) ==
  [role |-> "user",
   parts |-> [i \in 1..Len(responses) |->
                [kind |-> "function_response", function_response |-> responses[i]]]]

(* ------------------------------------------------------------------ *)
(* Screenshot retention, lines 487-514                                 *)
(* ------------------------------------------------------------------ *)

\* the test of lines 494-499 and 508-513
is_screenshot_part(part) ==
  /\ part.kind = "function_response"
  /\ part.function_response.parts # None
  /\ part.function_response.name \in PREDEFINED_COMPUTER_USE_FUNCTIONS

\* a bug the retention could have: any tool's result counts as a screenshot
has_screenshot_any_tool(content) ==
  /\ content.role = "user"
  /\ content.parts # << >>
  /\ \E i \in 1..Len(content.parts) : content.parts[i].kind = "function_response"

has_screenshot(content) ==
  /\ content.role = "user"
  /\ content.parts # << >>
  /\ \E i \in 1..Len(content.parts) : is_screenshot_part(content.parts[i])

\* a bug the retention could have: the inner loop stops at the first match
strip_first_screenshot(content) ==
  LET first == CHOOSE i \in 1..Len(content.parts) :
                 /\ is_screenshot_part(content.parts[i])
                 /\ \A j \in 1..(i - 1) : ~is_screenshot_part(content.parts[j])
  IN [content EXCEPT !.parts[first].function_response.parts = None]

\* another one: the response of the Part (its URL) is cleared with the image
strip_screenshots_and_response(content) ==
  [content EXCEPT !.parts =
     [i \in 1..Len(content.parts) |->
        IF is_screenshot_part(content.parts[i])
        THEN [content.parts[i] EXCEPT !.function_response.parts = None,
                                      !.function_response.response = EmptyDict]
        ELSE content.parts[i]]]

\* lines 507-514: part.function_response.parts = None on every matching Part
strip_screenshots(content) ==
  [content EXCEPT !.parts =
     [i \in 1..Len(content.parts) |->
        IF is_screenshot_part(content.parts[i])
        THEN [content.parts[i] EXCEPT !.function_response.parts = None]
        ELSE content.parts[i]]]

\* a bug the retention could have: the limit compared with >=
over_limit_off_by_one(found) == found >= MAX_RECENT_TURN_WITH_SCREENSHOTS

\* line 506
over_limit(found) == found > MAX_RECENT_TURN_WITH_SCREENSHOTS

\* the loop over reversed(self._contents) from index i down, having found
\* `found` Turns with screenshots so far
RECURSIVE retention_walk(_, _, _)
retention_walk(conv, i, found) ==
  IF i = 0 THEN conv
  ELSE IF has_screenshot(conv[i])
       THEN IF over_limit(found + 1)
            THEN retention_walk([conv EXCEPT ![i] = strip_screenshots(conv[i])],
                                i - 1, found + 1)
            ELSE retention_walk(conv, i - 1, found + 1)
       ELSE retention_walk(conv, i - 1, found)

remove_old_screenshots(conv) == retention_walk(conv, Len(conv), 0)

(* ------------------------------------------------------------------ *)
(* Safety confirmation, lines 518-545                                  *)
(* ------------------------------------------------------------------ *)

\* a bug the loop could have: the confirmation is never asked for
safety_of_never(function_call) == None

\* lines 442-444: function_call.args and function_call.args.get("safety_decision")
safety_of(function_call) ==
  IF function_call.args # EmptyDict
     /\ dict_has(function_call.args, "safety_decision")
     /\ function_call.args["safety_decision"] # EmptyDict
  THEN << function_call.args["safety_decision"] >>
  ELSE None

\* a bug the gate could have: the decision field is not examined
unknown_safety_decision_never(safety) == FALSE

\* line 521
unknown_safety_decision(safety) == safety.decision # REQUIRE_CONFIRMATION

\* line 541: the prompt is repeated while this is false
answer_accepted(decision) == str_lower(decision) \in ACCEPTED_ANSWERS

\* a bug the prompt could have: the refusal is compared case-sensitively
confirmation_of_case_sensitive(decision) ==
  IF decision \in DECLINING_ANSWERS THEN "TERMINATE" ELSE "CONTINUE"

\* lines 543-545, for an accepted answer
confirmation_of(decision) ==
  IF str_lower(decision) \in DECLINING_ANSWERS THEN "TERMINATE" ELSE "CONTINUE"

\* a bug the loop could have: a refusal does not end the iteration
is_terminate_never(decision) == FALSE

\* line 446
is_terminate(decision) == decision = "TERMINATE"

\* line 450
SAFETY_ACKNOWLEDGED == [safety_acknowledgement |-> "true"]

(* ------------------------------------------------------------------ *)
(* get_model_response, lines 325-354                                   *)
(* ------------------------------------------------------------------ *)

RECURSIVE pow2(_)
pow2(n) == IF n = 0 THEN 1 ELSE 2 * pow2(n - 1)

\* line 338: a failed attempt is followed by another one
retries_after(attempt_no, retries) == attempt_no < retries - 1

\* a bug the backoff could have: the delay grows linearly
backoff_delay_linear(base, attempt_no) == base * (attempt_no + 1)

\* line 339
backoff_delay(base, attempt_no) == base * pow2(attempt_no)

\* a bug the loop could have: the status is not tested
loop_goes_on_always(st) == TRUE

\* line 549: the test of the while loop of agent_loop

loop_goes_on(st) == st = "CONTINUE"

(* ------------------------------------------------------------------ *)
(* Sessions: what the outside world is in one run of the agent - how   *)
(* the agent is constructed, the credential store, and the Parts the   *)
(* model service composes its Turns of.                                *)
(* ------------------------------------------------------------------ *)

SafetyDecision(decision) == [decision |-> decision, explanation |-> "explanation"]

flagged(part, decision) ==
  [part EXCEPT !.function_call.args =
     @ @@ [safety_decision |-> SafetyDecision(decision)]]

Click == call_part("click_at", [x |-> 500, y |-> 500])
Multiply == call_part("multiply_numbers", [x |-> 2, y |-> 3])
TypeText(text) == call_part("type_text_at", [x |-> 500, y |-> 250, text |-> text])
ListCredentials == call_part("get_available_credentials", EmptyDict)
Login(site) == call_part("perform_secure_login", [site |-> site])
ReadJson == call_part("read_data_from_json", [file_path |-> "data.json"])
AskForHelp == call_part("ask_for_help", [question |-> "which one?"])
Unknown == call_part("open_file", [path |-> "notes.txt"])
Text == text_part(<< "o", "k" >>)
ClickAt(x, y) == call_part("click_at", [x |-> x, y |-> y])
HoverAt(x, y) == call_part("hover_at", [x |-> x, y |-> y])
Scroll(direction) ==
  call_part("scroll_at", [x |-> 500, y |-> 500, direction |-> direction])
ScrollBy(direction, magnitude) ==
  call_part("scroll_at", [x |-> 350, y |-> 350, direction |-> direction,
                          magnitude |-> magnitude])
DragAndDrop ==
  call_part("drag_and_drop", [x |-> 100, y |-> 200,
                              destination_x |-> 575, destination_y |-> 1000])

GH_USERNAME == << "G","H" >> \o USERNAME_SUFFIX
GH_PASSWORD == << "G","H" >> \o PASSWORD_SUFFIX

\* two credential stores that differ only in the secret values
StoreA == << << GH_USERNAME, "alice" >>, << GH_PASSWORD, "s3cret" >> >>
StoreB == << << GH_USERNAME, "bob" >>, << GH_PASSWORD, "hunter2" >> >>

\* a store of two sites, the second under the alternative *_USER key, and
\* of a third one whose password is empty
StoreTwo ==
  << << GH_USERNAME, "alice" >>, << GH_PASSWORD, "s3cret" >>,
     << << "G","L" >> \o USER_SUFFIX, "carol" >>,
     << << "G","L" >> \o PASSWORD_SUFFIX, "pa55" >>,
     << << "G","X" >> \o USERNAME_SUFFIX, "dave" >>,
     << << "G","X" >> \o PASSWORD_SUFFIX, "" >> >>

\* a session: the agent that is constructed, the environment it runs in, the
\* Parts sequences the model service composes its Turns from (vocabulary)
\* and the length of Conversation explored
session_of(agent_class, trust_mode, can_ask_for_help, env, env2, vocabulary, max_turns) ==
  [agent_class |-> agent_class, trust_mode |-> trust_mode,
   can_ask_for_help |-> can_ask_for_help, environ |-> env, environ2 |-> env2,
   vocabulary |-> vocabulary, max_turns |-> max_turns]

\* the finite sequences over S of length at most n
SeqsUpTo(S, n) == UNION { [1..k -> S] : k \in 0..n }

Sessions ==
  [ confirm |->
      session_of("BrowserAgent", FALSE, FALSE, << >>, << >>,
                 { << >>, << Text >>, << Text, Text >>, << Click >>,
                   << flagged(Click, REQUIRE_CONFIRMATION) >>,
                   << Click, flagged(Click, REQUIRE_CONFIRMATION) >>,
                   << flagged(Click, REQUIRE_CONFIRMATION), Click >>,
                   << Text, flagged(Click, REQUIRE_CONFIRMATION) >>,
                   << flagged(Click, REQUIRE_CONFIRMATION),
                      flagged(Click, REQUIRE_CONFIRMATION) >> }, MaxTurns),
    confirm_tool |->
      session_of("BrowserAgent", FALSE, FALSE, << >>, << >>,
                 { << >>, << Click >>,
                   << flagged(Multiply, REQUIRE_CONFIRMATION) >>,
                   << flagged(Click, "block") >>,
                   << Click, flagged(Multiply, REQUIRE_CONFIRMATION) >>,
                   << flagged(Multiply, REQUIRE_CONFIRMATION), Click >>,
                   << flagged(Multiply, REQUIRE_CONFIRMATION),
                      flagged(Click, "block") >> }, MaxTurns),
    trust |->
      session_of("BrowserAgent", TRUE, FALSE, << >>, << >>,
                 SeqsUpTo({ flagged(Click, REQUIRE_CONFIRMATION),
                   flagged(Multiply, REQUIRE_CONFIRMATION), Text }, MaxParts), MaxTurns),
    blocked |->
      session_of("BrowserAgent", TRUE, FALSE, << >>, << >>,
                 SeqsUpTo({ Click, flagged(Click, "block") }, MaxParts), MaxTurns),
    login |->
      session_of("BrowserAgent", FALSE, FALSE, StoreA, StoreB,
                 SeqsUpTo({ Login(<< "g","h" >>), TypeText(USERNAME_PLACEHOLDER),
                   TypeText(PASSWORD_PLACEHOLDER) }, MaxParts), MaxTurns),
    login_literal |->
      session_of("BrowserAgent", FALSE, FALSE, StoreA, StoreB,
                 SeqsUpTo({ Login(<< "g","h" >>), TypeText("{{username}}"),
                   ListCredentials }, MaxParts), MaxTurns),
    login_missing |->
      session_of("BrowserAgent", FALSE, FALSE, StoreA, StoreB,
                 SeqsUpTo({ Login(<< "g","l" >>), Login(<< "g","h" >>),
                   TypeText(PASSWORD_PLACEHOLDER) }, MaxParts), MaxTurns),
    form |->
      session_of("FormAgent", FALSE, TRUE, << >>, << >>,
                 SeqsUpTo({ ReadJson, AskForHelp, Click }, MaxParts), MaxTurns),
    form_no_help |->
      session_of("FormAgent", FALSE, FALSE, << >>, << >>,
                 SeqsUpTo({ ReadJson, AskForHelp, Multiply }, MaxParts), MaxTurns),
    unsupported |->
      session_of("BrowserAgent", FALSE, FALSE, << >>, << >>,
                 SeqsUpTo({ Unknown, AskForHelp, Click }, MaxParts), MaxTurns),
    login_two |->
      session_of("BrowserAgent", FALSE, FALSE, StoreTwo, StoreTwo,
                 { << Login(<< "g","h" >>) >>, << Login(<< "g","l" >>) >>,
                   << Login(<< "g","x" >>) >>, << Login(<< "n","o" >>) >>,
                   << Login(<< "g","h" >>), Login(<< "g","l" >>) >>,
                   << Login(<< "g","x" >>), TypeText(PASSWORD_PLACEHOLDER) >>,
                   << Login(<< "n","o" >>), TypeText(USERNAME_PLACEHOLDER) >> },
                 MaxTurns),
    pointer |->
      session_of("BrowserAgent", FALSE, FALSE, << >>, << >>,
                 { << ClickAt(175, 350) >>, << HoverAt(700, 999) >>,
                   << TypeText("hi") >>, << Scroll("up") >>, << Scroll("left") >>,
                   << ScrollBy("down", 350) >>, << ScrollBy("right", 350) >>,
                   << ScrollBy("diagonal", 100) >>, << DragAndDrop >>,
                   << DragAndDrop, Scroll("") >> }, MaxTurns),
    long |->
      session_of("BrowserAgent", FALSE, FALSE, << >>, << >>,
                 { << >>, << Multiply >>, << Click, Click >>,
                   << Click, Multiply >> }, MaxLongTurns) ]

\* what generate_content can return in a session: a response without
\* candidates, or one candidate whose content is None or a model Turn
Responses(vocabulary) ==
  { [candidates |-> << >>] } \cup
  { [candidates |-> << [content |-> content, finish_reason |-> finish_reason] >>] :
      content \in { None } \cup
                  { << [role |-> "model", parts |-> parts] >> :
                      parts \in vocabulary },
      finish_reason \in { "STOP", "MALFORMED_FUNCTION_CALL" } }

\* what the user types at a prompt
Answers ==
  { << "y" >>, << "Y","e" >>, << "Y","E","S" >>, << "n","o" >>, << "N" >>,
    << "m","a","y","b","e" >>, << >> }

\* the documents read_data_from_json finds: json.load returns whatever
\* the top-level JSON value is
JsonDocuments == { as_dict([name |-> "Ada"]), as_list(<< 1, 2 >>) }

Externals == [json : JsonDocuments, stdin : { << "h","i" >> }]

(* ------------------------------------------------------------------ *)
(* State                                                               *)
(* ------------------------------------------------------------------ *)

VARIABLES
  session,             \* the name of the session (fixed)
  contents,            \* self._contents
  final_reasoning,     \* self.final_reasoning
  temp_credentials,    \* self._temp_credentials, the Vault
  status,              \* agent_loop's status
  pc,                  \* where control is
  error,               \* the exception that left agent_loop, or None
  max_retries,         \* get_model_response's arguments
  base_delay_s,
  attempt,             \* its loop variable
  delays,              \* the time.sleep calls of the current call, in order
  calls,               \* generate_content calls made by the current call
  response,            \* the response it returned in this iteration, or None
  function_calls,      \* run_one_iteration's locals
  fc_index,
  function_responses,
  extra_fr_fields,
  dispatched,          \* the handlers that returned: [turn, index, name, call]
  gate_log,            \* the safety confirmations resolved: [turn, index, decision]
  invalid_inputs,      \* answers the prompt rejected so far
  prompted,            \* the input() answers read for the latest confirmation
                       \* (forgotten when the request is dispatched)
  contents2,           \* the same run over the second credential store
  temp_credentials2,
  function_responses2,
  dispatched2,
  backend_log,         \* main's `with env`: "enter" and "exit" as they happen
  call_args,           \* a function called on its own: its arguments
  call_result          \* and the value it returned, or None

vars ==
  << session, contents, final_reasoning, temp_credentials, status, pc, error,
     max_retries, base_delay_s, attempt, delays, calls, response,
     function_calls, fc_index, function_responses, extra_fr_fields,
     dispatched, gate_log, invalid_inputs, prompted,
     contents2, temp_credentials2, function_responses2, dispatched2,
     backend_log, call_args, call_result >>

retry_vars == << max_retries, base_delay_s, attempt, delays, calls, response >>
iteration_vars == << function_calls, fc_index, function_responses, extra_fr_fields >>
second_run_vars == << contents2, temp_credentials2, function_responses2, dispatched2 >>

agent_class == Sessions[session].agent_class
\* a bug the agent could have: the trust-mode argument is not honoured
trust_mode_ignored == FALSE
trust_mode == Sessions[session].trust_mode
can_ask_for_help == Sessions[session].can_ask_for_help
environ == Sessions[session].environ
environ2 == Sessions[session].environ2
vocabulary == Sessions[session].vocabulary
max_turns == Sessions[session].max_turns

\* the state main is in before its `with` statement, with the fields
\* BrowserAgent.__init__ (lines 157-186) gives the agent
Init ==
  /\ session \in DOMAIN Sessions
  /\ backend_log = << >>
  /\ call_args = None
  /\ call_result = None
  /\ contents = << [role |-> "user", parts |-> << text_part(<< "g","o" >>) >>] >>
  /\ final_reasoning = None
  /\ temp_credentials = EmptyDict
  /\ status = "CONTINUE"
  /\ pc = "main"
  /\ error = None
  /\ max_retries = DEFAULT_MAX_RETRIES
  /\ base_delay_s = DEFAULT_BASE_DELAY_S
  /\ attempt = 0
  /\ delays = << >>
  /\ calls = 0
  /\ response = None
  /\ function_calls = << >>
  /\ fc_index = 0
  /\ function_responses = << >>
  /\ extra_fr_fields = EmptyDict
  /\ dispatched = << >>
  /\ gate_log = << >>
  /\ invalid_inputs = 0
  /\ prompted = None
  /\ contents2 = contents
  /\ temp_credentials2 = EmptyDict
  /\ function_responses2 = << >>
  /\ dispatched2 = << >>

(* ------------------------------------------------------------------ *)
(* agent_loop and run_one_iteration                                    *)
(* ------------------------------------------------------------------ *)

\* run_one_iteration returns st to agent_loop: the locals are gone (the
\* response is kept until the next iteration starts, as a record of what
\* the model service answered)
return_to_loop(st) ==
  /\ status' = st
  /\ pc' = "agent_loop"
  /\ function_calls' = << >>
  /\ fc_index' = 0
  /\ function_responses' = << >>
  /\ function_responses2' = << >>
  /\ extra_fr_fields' = EmptyDict
  /\ attempt' = 0
  /\ delays' = << >>
  /\ calls' = 0
  /\ UNCHANGED << max_retries, base_delay_s >>

\* an exception leaves run_one_iteration and agent_loop
propagate(e) ==
  /\ error' = << e >>
  /\ pc' = "crashed"

\* everything but the backend's scope
agent_vars ==
  << session, contents, final_reasoning, temp_credentials, status, pc, error,
     retry_vars, iteration_vars, dispatched, gate_log, invalid_inputs, prompted,
     second_run_vars, call_args, call_result >>

\* a bug main could have: the backend is released only when agent_loop returns
ExitBackend_on_return_only ==
  /\ pc = "done"
  /\ backend_log = << "enter" >>
  /\ backend_log' = Append(backend_log, "exit")
  /\ UNCHANGED agent_vars

\* src/main.py line 105: env.__enter__() returns the backend; lines 106-113:
\* the agent is constructed around it and agent_loop is called
EnterBackend ==
  /\ pc = "main"
  /\ backend_log' = Append(backend_log, "enter")
  /\ pc' = "agent_loop"
  /\ UNCHANGED << session, contents, final_reasoning, temp_credentials, status,
                  error, retry_vars, iteration_vars, dispatched, gate_log,
                  invalid_inputs, prompted, second_run_vars, call_args,
                  call_result >>

\* src/main.py lines 105-114: control leaves the `with` block, by agent_loop
\* returning or by an exception, and env.__exit__() is called
ExitBackend ==
  /\ pc \in { "done", "crashed" }
  /\ backend_log = << "enter" >>
  /\ backend_log' = Append(backend_log, "exit")
  /\ UNCHANGED agent_vars

\* lines 549-550 and 376-390: the loop test holds, run_one_iteration starts
\* and calls get_model_response
StartIteration ==
  /\ pc = "agent_loop"
  /\ loop_goes_on(status)
  /\ Len(contents) + 2 <= max_turns
  /\ pc' = "get_model_response"
  /\ attempt' = 0
  /\ delays' = << >>
  /\ calls' = 0
  /\ response' = None
  /\ UNCHANGED << session, backend_log, call_args, call_result,
                  contents, final_reasoning, temp_credentials, status,
                  error, max_retries, base_delay_s, iteration_vars, dispatched,
                  gate_log, invalid_inputs, prompted, second_run_vars >>

\* line 549: the loop test fails, agent_loop returns
LoopExit ==
  /\ pc = "agent_loop"
  /\ ~loop_goes_on(status)
  /\ pc' = "done"
  /\ UNCHANGED << session, backend_log, call_args, call_result,
                  contents, final_reasoning, temp_credentials, status,
                  error, retry_vars, iteration_vars, dispatched, gate_log,
                  invalid_inputs, prompted, second_run_vars >>

\* lines 336-354: generate_content raises; sleep and go round, or re-raise
AttemptFails ==
  /\ pc = "get_model_response"
  /\ attempt < max_retries
  /\ calls' = calls + 1
  /\ IF retries_after(attempt, max_retries)
     THEN /\ delays' = Append(delays, backoff_delay(base_delay_s, attempt))
          /\ attempt' = attempt + 1
          /\ pc' = pc
     ELSE /\ pc' = "raised"
          /\ UNCHANGED << attempt, delays >>
  /\ UNCHANGED << session, backend_log, call_args, call_result,
                  contents, final_reasoning, temp_credentials, status,
                  error, max_retries, base_delay_s, response, iteration_vars,
                  dispatched, gate_log, invalid_inputs, prompted, second_run_vars >>

\* a bug the iteration could have: the exception of get_model_response is
\* not caught and leaves agent_loop
ModelCallExhausted_propagates ==
  /\ pc = "raised"
  /\ propagate("Exception")
  /\ UNCHANGED << session, backend_log, call_args, call_result,
                  contents, final_reasoning, temp_credentials, status,
                  retry_vars, iteration_vars, dispatched, gate_log,
                  invalid_inputs, prompted, second_run_vars >>

\* lines 384-385, 389-390: the exception of get_model_response is caught
ModelCallExhausted ==
  /\ pc = "raised"
  /\ return_to_loop("COMPLETE")
  /\ UNCHANGED << session, backend_log, call_args, call_result,
                  contents, final_reasoning, temp_credentials, error,
                  response, dispatched, gate_log, invalid_inputs, prompted, contents2,
                  temp_credentials2, dispatched2 >>

\* a bug the iteration could have: a response without candidates ends the
\* loop as if the task were complete
empty_response_completes ==
  /\ return_to_loop("COMPLETE")
  /\ UNCHANGED << contents, contents2, final_reasoning, error >>

\* lines 392-395: the response has no candidates
empty_response ==
  /\ propagate("ValueError: Empty response")
  /\ UNCHANGED << contents, contents2, final_reasoning, status,
                  max_retries, base_delay_s, attempt, delays, calls,
                  iteration_vars, function_responses2 >>

\* lines 328-335, 392-417 and 439: generate_content returns a response,
\* get_model_response returns it and run_one_iteration examines it
ModelResponds ==
  /\ pc = "get_model_response"
  /\ attempt < max_retries
  /\ UNCHANGED << session, backend_log, call_args, call_result,
                  temp_credentials, dispatched, gate_log,
                  invalid_inputs, prompted, temp_credentials2, dispatched2 >>
  /\ \E r \in Responses(vocabulary) :
     /\ response' = << r >>
     /\ IF r.candidates = << >>
        THEN empty_response
        ELSE LET candidate == r.candidates[1]
                 reasoning == get_text(candidate)
                 calls_found == extract_function_calls(candidate)
             IN /\ contents' = IF candidate.content # None
                               THEN Append(contents, candidate.content[1])
                               ELSE contents
                /\ contents2' = IF candidate.content # None
                                THEN Append(contents2, candidate.content[1])
                                ELSE contents2
                /\ final_reasoning' =
                     final_reasoning_after(calls_found, reasoning, candidate,
                                           final_reasoning)
                /\ IF malformed_retry(calls_found, reasoning, candidate)
                   THEN /\ return_to_loop("CONTINUE")
                        /\ UNCHANGED error
                   ELSE IF calls_found = << >>
                   THEN /\ return_to_loop("COMPLETE")
                        /\ UNCHANGED error
                   ELSE /\ function_calls' = calls_found
                        /\ fc_index' = 1
                        /\ function_responses' = << >>
                        /\ function_responses2' = << >>
                        /\ extra_fr_fields' = EmptyDict
                        /\ pc' = "for"
                        /\ attempt' = 0
                        /\ delays' = << >>
                        /\ calls' = 0
                        /\ UNCHANGED << status, error,
                                        max_retries, base_delay_s >>

\* a bug the loop could have: it does not advance through the requests
function_call_first == function_calls[1]

\* the function call the for loop of line 440 is at
function_call == function_calls[fc_index]

\* the confirmation of the current call is still to be obtained
confirmation_pending ==
  /\ pc = "for"
  /\ safety_of(function_call) # None
  /\ extra_fr_fields = EmptyDict

resolved(decision) ==
  Append(gate_log, [turn |-> Len(contents), index |-> fc_index, decision |-> decision])

\* lines 521-522
SafetyDecisionUnknown ==
  /\ confirmation_pending
  /\ unknown_safety_decision(safety_of(function_call)[1])
  /\ propagate("ValueError: Unknown safety decision")
  /\ UNCHANGED << session, backend_log, call_args, call_result,
                  contents, final_reasoning, temp_credentials, status,
                  retry_vars, iteration_vars, dispatched, gate_log,
                  invalid_inputs, prompted, second_run_vars >>

\* lines 525-531 and 450
SafetyAutoApproved ==
  /\ confirmation_pending
  /\ ~unknown_safety_decision(safety_of(function_call)[1])
  /\ trust_mode
  /\ gate_log' = resolved("CONTINUE")
  /\ extra_fr_fields' = SAFETY_ACKNOWLEDGED
  /\ UNCHANGED << session, backend_log, call_args, call_result,
                  contents, final_reasoning, temp_credentials, status,
                  pc, error, retry_vars, function_calls, fc_index,
                  function_responses, dispatched, invalid_inputs, prompted,
                  second_run_vars >>

\* line 542: input() returns decision for the confirmation of the current
\* call; the answers read for it so far are kept
input_read(decision) ==
  IF /\ prompted # None
     /\ prompted[1].turn = Len(contents) /\ prompted[1].index = fc_index
  THEN << [prompted[1] EXCEPT !.answers = Append(@, decision)] >>
  ELSE << [turn |-> Len(contents), index |-> fc_index, answers |-> << decision >>] >>

\* lines 541-542: an answer the prompt does not accept; it is asked again
SafetyAnswerRejected ==
  /\ confirmation_pending
  /\ ~unknown_safety_decision(safety_of(function_call)[1])
  /\ ~trust_mode
  /\ invalid_inputs < MaxInvalidInputs
  /\ \E decision \in Answers :
       /\ ~answer_accepted(decision)
       /\ prompted' = input_read(decision)
  /\ invalid_inputs' = invalid_inputs + 1
  /\ UNCHANGED << session, backend_log, call_args, call_result,
                  contents, final_reasoning, temp_credentials, status,
                  pc, error, retry_vars, iteration_vars, dispatched, gate_log,
                  second_run_vars >>

\* lines 541-545 and 446-450: an accepted answer resolves the confirmation
SafetyAnswered ==
  /\ confirmation_pending
  /\ ~unknown_safety_decision(safety_of(function_call)[1])
  /\ ~trust_mode
  /\ \E decision \in Answers :
       /\ answer_accepted(decision)
       /\ prompted' = input_read(decision)
       /\ gate_log' = resolved(confirmation_of(decision))
       /\ IF is_terminate(confirmation_of(decision))
          THEN /\ return_to_loop("COMPLETE")
          ELSE /\ extra_fr_fields' = SAFETY_ACKNOWLEDGED
               /\ UNCHANGED << status, pc, max_retries, base_delay_s, attempt,
                               delays, calls, function_calls, fc_index,
                               function_responses, function_responses2 >>
  /\ UNCHANGED << session, backend_log, call_args, call_result,
                  contents, final_reasoning, temp_credentials, error,
                  response, dispatched, invalid_inputs, contents2,
                  temp_credentials2, dispatched2 >>

dispatch_record(r) ==
  [turn |-> Len(contents), index |-> fc_index, name |-> function_call.name,
   call |-> r.call]

\* lines 451-485 and 487-516: the handler runs and its response is collected;
\* after the last call the user Turn is appended, old screenshots are
\* removed and the iteration returns CONTINUE
HandleAction ==
  /\ pc = "for"
  /\ ~confirmation_pending
  /\ \E ext \in Externals :
       LET r  == handle_action(agent_class, function_call, temp_credentials,
                               environ, can_ask_for_help, ext)
           r2 == handle_action(agent_class, function_call, temp_credentials2,
                               environ2, can_ask_for_help, ext)
           collected  == function_responses \o
                           function_response_for(function_call.name, r.value,
                                                 extra_fr_fields)
           collected2 == function_responses2 \o
                           function_response_for(function_call.name, r2.value,
                                                 extra_fr_fields)
       IN /\ IF r2.outcome = "return"
             THEN /\ temp_credentials2' = r2.temp_credentials
                  /\ dispatched2' = Append(dispatched2, dispatch_record(r2))
             ELSE UNCHANGED << temp_credentials2, dispatched2 >>
          /\ IF r.outcome = "raise"
             THEN /\ propagate(r.value)
                  /\ function_responses2' =
                       IF r2.outcome = "return" THEN collected2
                       ELSE function_responses2
                  /\ UNCHANGED << contents, contents2, temp_credentials, status,
                                  max_retries, base_delay_s, attempt, delays,
                                  calls, iteration_vars, dispatched >>
             ELSE /\ temp_credentials' = r.temp_credentials
                  /\ dispatched' = Append(dispatched, dispatch_record(r))
                  /\ IF fc_index < Len(function_calls)
                     THEN /\ fc_index' = fc_index + 1
                          /\ function_responses' = collected
                          /\ function_responses2' =
                               IF r2.outcome = "return" THEN collected2
                               ELSE function_responses2
                          /\ extra_fr_fields' = EmptyDict
                          /\ UNCHANGED << contents, contents2, status, pc,
                                          error, max_retries, base_delay_s,
                                          attempt, delays, calls,
                                          function_calls >>
                     ELSE /\ contents' = remove_old_screenshots(
                                           Append(contents, user_turn(collected)))
                          /\ contents2' = remove_old_screenshots(
                                            Append(contents2, user_turn(collected2)))
                          /\ return_to_loop("CONTINUE")
                          /\ UNCHANGED error
  /\ prompted' = None
  /\ UNCHANGED << session, backend_log, call_args, call_result,
                  final_reasoning, response, gate_log, invalid_inputs >>

Next ==
  \/ EnterBackend
  \/ ExitBackend
  \/ StartIteration
  \/ LoopExit
  \/ AttemptFails
  \/ ModelCallExhausted
  \/ ModelResponds
  \/ SafetyDecisionUnknown
  \/ SafetyAutoApproved
  \/ SafetyAnswerRejected
  \/ SafetyAnswered
  \/ HandleAction

Spec == Init /\ [][Next]_vars

\* main with the guarantee of the `with` statement: once control has left
\* the block, __exit__ is called
MainSessions == { "confirm_tool", "trust", "unsupported" }

MainInit == Init /\ session \in MainSessions

SpecMain == MainInit /\ [][Next]_vars /\ WF_vars(ExitBackend)

(* ------------------------------------------------------------------ *)
(* get_model_response on its own, for any max_retries >= 1 and any     *)
(* base_delay_s                                                        *)
(* ------------------------------------------------------------------ *)

RetryInit ==
  /\ session = "confirm"
  /\ backend_log = << "enter" >>
  /\ call_args = None
  /\ call_result = None
  /\ contents = << [role |-> "user", parts |-> << text_part(<< "g","o" >>) >>] >>
  /\ contents2 = contents
  /\ final_reasoning = None
  /\ temp_credentials = EmptyDict
  /\ status = "CONTINUE"
  /\ pc = "get_model_response"
  /\ error = None
  /\ max_retries \in 1..MaxRetriesArg
  /\ base_delay_s \in 1..MaxBaseDelayArg
  /\ attempt = 0
  /\ delays = << >>
  /\ calls = 0
  /\ response = None
  /\ function_calls = << >>
  /\ fc_index = 0
  /\ function_responses = << >>
  /\ extra_fr_fields = EmptyDict
  /\ dispatched = << >>
  /\ gate_log = << >>
  /\ invalid_inputs = 0
  /\ prompted = None
  /\ temp_credentials2 = EmptyDict
  /\ function_responses2 = << >>
  /\ dispatched2 = << >>

\* lines 328-335: generate_content returns and so does get_model_response
AttemptSucceeds ==
  /\ pc = "get_model_response"
  /\ attempt < max_retries
  /\ \E r \in Responses(vocabulary) : response' = << r >>
  /\ calls' = calls + 1
  /\ pc' = "returned"
  /\ UNCHANGED << session, backend_log, call_args, call_result,
                  contents, final_reasoning, temp_credentials, status,
                  error, max_retries, base_delay_s, attempt, delays,
                  iteration_vars, dispatched, gate_log, invalid_inputs, prompted,
                  second_run_vars >>

RetryNext ==
  \/ AttemptSucceeds
  \/ AttemptFails

SpecRetry == RetryInit /\ [][RetryNext]_vars

(* ------------------------------------------------------------------ *)
(* A function of the agent called on its own                           *)
(* ------------------------------------------------------------------ *)

\* a constructed agent with control at entry, outside agent_loop
agent_at(entry) ==
  /\ session = "confirm"
  /\ backend_log = << "enter" >>
  /\ contents = << [role |-> "user", parts |-> << text_part(<< "g","o" >>) >>] >>
  /\ contents2 = contents
  /\ final_reasoning = None
  /\ temp_credentials = EmptyDict
  /\ status = "CONTINUE"
  /\ pc = entry
  /\ error = None
  /\ max_retries = DEFAULT_MAX_RETRIES
  /\ base_delay_s = DEFAULT_BASE_DELAY_S
  /\ attempt = 0
  /\ delays = << >>
  /\ calls = 0
  /\ response = None
  /\ function_calls = << >>
  /\ fc_index = 0
  /\ function_responses = << >>
  /\ extra_fr_fields = EmptyDict
  /\ dispatched = << >>
  /\ gate_log = << >>
  /\ invalid_inputs = 0
  /\ prompted = None
  /\ temp_credentials2 = EmptyDict
  /\ function_responses2 = << >>
  /\ dispatched2 = << >>

\* what a call on its own leaves alone
call_frame ==
  << session, backend_log, contents, final_reasoning, status, error,
     retry_vars, iteration_vars, dispatched, gate_log, invalid_inputs,
     prompted, second_run_vars >>

\* the normalized coordinates: the model's grid is 0..1000 on both axes
NORMALIZED_MAX == 1000

\* denormalize_x / denormalize_y for every normalized coordinate
MapperInit ==
  /\ agent_at("denormalize")
  /\ call_args \in [v : 0..NORMALIZED_MAX, axis : { "x", "y" }]
  /\ call_result = None

\* lines 552-556
Denormalize ==
  /\ pc = "denormalize"
  /\ call_result' = << IF call_args.axis = "x" THEN denormalize_x(call_args.v)
                                               ELSE denormalize_y(call_args.v) >>
  /\ pc' = "returned"
  /\ UNCHANGED << call_frame, temp_credentials, call_args >>

MapperNext == Denormalize

SpecMapper == MapperInit /\ [][MapperNext]_vars

\* the credential stores: every os.environ of at most MaxStoreSize variables
\* named as credentials of one site, in upper or mixed case, with a secret
\* or an empty value
StoreKeys ==
  { << "G","H" >> \o USERNAME_SUFFIX, << "G","H" >> \o USER_SUFFIX,
    << "G","H" >> \o PASSWORD_SUFFIX,
    << "G","h" >> \o USERNAME_SUFFIX, << "G","h" >> \o PASSWORD_SUFFIX }

StoreValues == { "alice", "" }

CredentialStores ==
  { env \in SeqsUpTo(StoreKeys \X StoreValues, MaxStoreSize) :
      \A i, j \in 1..Len(env) : env[i][1] = env[j][1] => i = j }

\* get_available_credentials, then perform_secure_login for a site listed
CredentialsInit ==
  /\ agent_at("list")
  /\ call_args \in [environ : CredentialStores, site : { None }]
  /\ call_result = [available_sites |-> None, login |-> None]

\* handle_action for get_available_credentials (lines 305-306)
ListAvailable ==
  /\ pc = "list"
  /\ LET r == BrowserAgent_handle_action(ListCredentials.function_call,
                                         temp_credentials, call_args.environ)
     IN /\ call_result' = [call_result EXCEPT
                             !.available_sites = << r.value.value.available_sites >>]
        /\ temp_credentials' = r.temp_credentials
  /\ pc' = "listed"
  /\ UNCHANGED << call_frame, call_args >>

\* handle_action for perform_secure_login (lines 307-321) with a site that
\* was listed
RetrieveListed ==
  /\ pc = "listed"
  /\ \E i \in 1..Len(call_result.available_sites[1]) :
       LET site == call_result.available_sites[1][i]
           r == BrowserAgent_handle_action(Login(site).function_call,
                                           temp_credentials, call_args.environ)
       IN /\ call_args' = [call_args EXCEPT !.site = << site >>]
          /\ call_result' = [call_result EXCEPT !.login = << r.value.value >>]
          /\ temp_credentials' = r.temp_credentials
  /\ pc' = "retrieved"
  /\ UNCHANGED call_frame

CredentialsNext ==
  \/ ListAvailable
  \/ RetrieveListed

SpecCredentials == CredentialsInit /\ [][CredentialsNext]_vars

(* ================================================================== *)
(* Properties                                                          *)
(* ================================================================== *)

\* the function calls of the Turn at index t of the Conversation, in order
CallsOfTurn(t) ==
  LET parts == SelectSeq(contents[t].parts, LAMBDA part : part.kind = "function_call")
  IN [i \in 1..Len(parts) |-> parts[i].function_call]

\* the request a dispatch record or a confirmation record is about
RequestOf(rec) == CallsOfTurn(rec.turn)[rec.index]

\* the request carries a safety decision
CarriesSafetyDecision(fc) == "safety_decision" \in DOMAIN fc.args

\* the confirmations resolved for the request of record rec
ResolutionsFor(rec) ==
  { j \in 1..Len(gate_log) :
      gate_log[j].turn = rec.turn /\ gate_log[j].index = rec.index }

\* a confirmation was refused
Terminated == \E j \in 1..Len(gate_log) : gate_log[j].decision = "TERMINATE"

TerminatedAt == gate_log[CHOOSE j \in 1..Len(gate_log) : gate_log[j].decision = "TERMINATE"]

\* record a comes before record b in the order of requests
Before(a, b) == a.turn < b.turn \/ (a.turn = b.turn /\ a.index < b.index)

\* C1: a handler (backend action or custom tool) has run for a request that
\* carries a safety decision only if the confirmation of that very request
\* was resolved, exactly once, and to CONTINUE.  It holds in every state,
\* so the resolution is there no later than the dispatch.
C1_FlaggedDispatchedOnlyAfterContinue ==
  \A i \in 1..Len(dispatched) :
    CarriesSafetyDecision(RequestOf(dispatched[i])) =>
      /\ Cardinality(ResolutionsFor(dispatched[i])) = 1
      /\ \A j \in ResolutionsFor(dispatched[i]) : gate_log[j].decision = "CONTINUE"

\* C1 witness: a flagged request in second position of the second model
\* Turn was dispatched after the user confirmed
C1_Witness ==
  \E i \in 1..Len(dispatched) :
    /\ CarriesSafetyDecision(RequestOf(dispatched[i]))
    /\ dispatched[i].index = 2
    /\ dispatched[i].turn > 2
    /\ ~trust_mode

\* C2: once a confirmation is refused, the iteration has returned COMPLETE
\* and nothing happens any more: the refusal is the last confirmation, the
\* Conversation ends with the model Turn of the refused request, every
\* handler that ran belongs to an earlier request, no model call is under
\* way and control is at the loop test or past it.
C2_TerminateHaltsLoop ==
  Terminated =>
    /\ status = "COMPLETE"
    /\ pc \in { "agent_loop", "done" }
    /\ gate_log[Len(gate_log)] = TerminatedAt
    /\ Len(contents) = TerminatedAt.turn
    /\ \A i \in 1..Len(dispatched) : Before(dispatched[i], TerminatedAt)
    /\ calls = 0 /\ attempt = 0 /\ delays = << >>
    /\ function_calls = << >>

\* C2 witness: the loop has ended after a refusal in a later Turn, with
\* requests of that Turn left undone
C2_Witness ==
  /\ Terminated
  /\ pc = "done"
  /\ TerminatedAt.turn > 2
  /\ TerminatedAt.index < Len(CallsOfTurn(TerminatedAt.turn))

\* the refused request is one of two requests of its Turn, one of them flagged
TwoRequestsOneFlaggedRefused ==
  /\ Terminated
  /\ Len(CallsOfTurn(TerminatedAt.turn)) = 2
  /\ Cardinality({ i \in 1..2 :
                     CarriesSafetyDecision(CallsOfTurn(TerminatedAt.turn)[i]) }) = 1

\* the handlers that ran for requests of the Turn of the refused request
RanInRefusedTurn ==
  { dispatched[i].index : i \in { k \in 1..Len(dispatched) :
                                    dispatched[k].turn = TerminatedAt.turn } }

\* C3 as stated: two requests, one flagged (in either position), the user
\* refuses: the loop is COMPLETE, neither request's handler has run and no
\* user Turn is appended.
C3_Original ==
  TwoRequestsOneFlaggedRefused =>
    /\ status = "COMPLETE"
    /\ RanInRefusedTurn = {}
    /\ Len(contents) = TerminatedAt.turn

\* C3 amended: two requests, one flagged, the user refuses: the loop is
\* COMPLETE and no user Turn is appended; the flagged request is not
\* executed, nor a request after it; a request before it (the first, when
\* the flagged request is the second) has been executed.
C3_Amended ==
  TwoRequestsOneFlaggedRefused =>
    /\ status = "COMPLETE"
    /\ RanInRefusedTurn = 1..(TerminatedAt.index - 1)
    /\ Len(contents) = TerminatedAt.turn
    /\ contents[Len(contents)].role = "model"

\* C3 witness: the flagged request is the second one, refused
C3_Witness ==
  /\ TwoRequestsOneFlaggedRefused
  /\ TerminatedAt.index = 2
  /\ pc = "done"

\* a dispatch record without the text forwarded to type_text_at
WithoutTypedText(rec) ==
  IF rec.name = "type_text_at"
  THEN [rec EXCEPT !.call[1].kwargs.text = "(text)"]
  ELSE rec

\* two sequences of function responses name the same requests and agree on
\* every custom-tool result
SameCustomResults(a, b) ==
  /\ Len(a) = Len(b)
  /\ \A i \in 1..Len(a) :
       /\ a[i].name = b[i].name
       /\ a[i].name \notin PREDEFINED_COMPUTER_USE_FUNCTIONS => a[i] = b[i]

\* the function responses of a user Turn of responses
ResponsesOf(turn) ==
  [i \in 1..Len(turn.parts) |-> turn.parts[i].function_response]

\* C4: the run over the second credential store, which differs from the
\* first only in the (non-empty) secret values, is given the same model
\* Turns, returns the same custom-tool results to the Conversation and
\* dispatches the same calls, but for the text handed to type_text_at.
C4_SecretsDoNotReachConversation ==
  /\ Len(contents2) = Len(contents)
  /\ \A t \in 2..Len(contents) :
       /\ contents2[t].role = contents[t].role
       /\ IF contents[t].role = "user"
          THEN SameCustomResults(ResponsesOf(contents2[t]), ResponsesOf(contents[t]))
          ELSE contents2[t] = contents[t]
  /\ SameCustomResults(function_responses2, function_responses)
  /\ Len(dispatched2) = Len(dispatched)
  /\ \A i \in 1..Len(dispatched) :
       WithoutTypedText(dispatched2[i]) = WithoutTypedText(dispatched[i])

\* C4 witness: credentials were listed or retrieved and a secret was typed,
\* a different one in each run, and the user Turn of it is in the Conversation
C4_Witness ==
  /\ environ # environ2
  /\ pc = "agent_loop"
  /\ \E i \in 1..Len(dispatched) :
       /\ dispatched[i].name = "type_text_at"
       /\ dispatched[i].turn < Len(contents)
       /\ dispatched[i].call[1].kwargs.text # dispatched2[i].call[1].kwargs.text
  /\ \E i \in 1..Len(dispatched) : dispatched[i].name = "perform_secure_login"

\* the text the claim expects to be forwarded
ExpectedText(text, vault) ==
  CASE text = "{{USERNAME}}" /\ vault # EmptyDict -> vault["username"]
    [] text = "{{PASSWORD}}" /\ vault # EmptyDict -> vault["password"]
    [] OTHER -> text

LastDispatched == dispatched[Len(dispatched)]

\* the pairs of non-empty secrets the store holds for a site, under
\* SITE_USERNAME or SITE_USER and SITE_PASSWORD
StoredPairs ==
  LET keys == 1..Len(environ)
      prefixes(key) == { SubSeq(key, 1, k) : k \in 0..Len(key) }
      paired(u, p) ==
        /\ environ[u][2] # "" /\ environ[p][2] # ""
        /\ \E prefix \in prefixes(environ[p][1]) :
             /\ environ[p][1] = prefix \o PASSWORD_SUFFIX
             /\ environ[u][1] \in { prefix \o USERNAME_SUFFIX, prefix \o USER_SUFFIX }
  IN { [username |-> environ[q[1]][2], password |-> environ[q[2]][2]] :
         q \in { r \in keys \X keys : paired(r[1], r[2]) } }

\* C5: when type_text_at has just been dispatched, the text forwarded to the
\* backend is the Vault's username for the username placeholder and its
\* password for the password placeholder if the Vault holds a pair, and the
\* text argument itself otherwise; and the Vault holds what the store holds.
C5_TypeTextSubstitution ==
  /\ (dispatched # << >> /\ LastDispatched.name = "type_text_at") =>
       LastDispatched.call[1].kwargs.text =
         ExpectedText(RequestOf(LastDispatched).args.text, temp_credentials)
  /\ temp_credentials # EmptyDict =>
       \E pair \in StoredPairs : temp_credentials = pair

\* C5 witness: the password placeholder was replaced by the password
C5_Witness ==
  /\ dispatched # << >>
  /\ LastDispatched.name = "type_text_at"
  /\ RequestOf(LastDispatched).args.text = "{{PASSWORD}}"
  /\ LastDispatched.call[1].kwargs.text = "s3cret"

\* C6 as stated: every user Turn of responses has one Part per request of the
\* model Turn before it, in the same order and with the same names.
C6_OneResponsePerRequest ==
  \A t \in 2..Len(contents) :
    (contents[t].role = "user") =>
      /\ contents[t - 1].role = "model"
      /\ Len(contents[t].parts) = Len(CallsOfTurn(t - 1))
      /\ \A i \in 1..Len(contents[t].parts) :
           /\ contents[t].parts[i].kind = "function_response"
           /\ i <= Len(CallsOfTurn(t - 1))
           /\ contents[t].parts[i].function_response.name = CallsOfTurn(t - 1)[i].name

\* C7 as stated: the first Turn is the user's and no two consecutive Turns
\* have the same role.
C7_RolesAlternate ==
  /\ contents[1].role = "user"
  /\ \A t \in 1..(Len(contents) - 1) : contents[t].role # contents[t + 1].role

\* a Part that is the result of a built-in action
IsBuiltInResult(part) ==
  /\ part.kind = "function_response"
  /\ part.function_response.name \in PREDEFINED_COMPUTER_USE_FUNCTIONS

\* the user Turns with a built-in action-result
ScreenshotTurns ==
  { t \in 1..Len(contents) :
      /\ contents[t].role = "user"
      /\ \E i \in 1..Len(contents[t].parts) : IsBuiltInResult(contents[t].parts[i]) }

\* the built-in results of Turn t that have / have not an attachment
AttachedIn(t) ==
  { i \in 1..Len(contents[t].parts) :
      /\ IsBuiltInResult(contents[t].parts[i])
      /\ contents[t].parts[i].function_response.parts # None }

BuiltInIn(t) ==
  { i \in 1..Len(contents[t].parts) : IsBuiltInResult(contents[t].parts[i]) }

\* the n most recent of the Turns in T
MostRecent(T, n) == { t \in T : Cardinality({ u \in T : u > t }) < n }

\* C8: with more than 3 user Turns that have a built-in action-result, the
\* 3 most recent of them have the attachment of every built-in result and
\* the older ones have no attachment on any built-in result.
C8_ThreeMostRecentKeepScreenshots ==
  Cardinality(ScreenshotTurns) > 3 =>
    \A t \in ScreenshotTurns :
      IF t \in MostRecent(ScreenshotTurns, 3)
      THEN AttachedIn(t) = BuiltInIn(t)
      ELSE AttachedIn(t) = {}

\* C8 witness: four such Turns, one of them with two built-in results and
\* one with a custom-tool result beside the built-in one
C8_Witness ==
  /\ Cardinality(ScreenshotTurns) = 4
  /\ \E t \in ScreenshotTurns : Cardinality(BuiltInIn(t)) = 2
  /\ \E t \in ScreenshotTurns : Len(contents[t].parts) > Cardinality(BuiltInIn(t))

\* C9: the Conversation the loop holds has been pruned; pruning it again
\* changes nothing.
C9_RetentionIdempotent ==
  remove_old_screenshots(contents) = contents

\* C9 witness: a Turn with two built-in results has lost its screenshots
C9_Witness ==
  \E t \in ScreenshotTurns :
    /\ Cardinality(BuiltInIn(t)) = 2
    /\ AttachedIn(t) = {}

\* C10: get_model_response calls generate_content until the first success
\* or until max_retries calls have failed.  It returns on the first
\* success, having made one call more than it slept; it raises after
\* exactly max_retries calls and max_retries - 1 sleeps; the k-th sleep,
\* which precedes attempt k, lasts base_delay_s * 2^(k-1); nothing is slept
\* before the first call or after the last failed one.
C10_RetryWithBackoff ==
  /\ Len(delays) = attempt
  /\ attempt < max_retries
  /\ \A k \in 1..Len(delays) : delays[k] = base_delay_s * 2^(k - 1)
  /\ pc = "get_model_response" => (calls = attempt /\ response = None)
  /\ pc = "returned" =>
       (calls = Len(delays) + 1 /\ calls <= max_retries /\ response # None)
  /\ pc = "raised" =>
       (calls = max_retries /\ Len(delays) = max_retries - 1 /\ response = None)

\* C10 witness: four failures, then a success, with max_retries = 5
C10_Witness ==
  /\ pc = "returned"
  /\ max_retries = 5
  /\ calls = 5
  /\ delays = << base_delay_s, 2 * base_delay_s, 4 * base_delay_s, 8 * base_delay_s >>

\* what an iteration that executes nothing leaves alone: the Conversation,
\* the Vault, the final reasoning and the logs of handlers and confirmations
NothingExecuted ==
  /\ contents' = contents
  /\ temp_credentials' = temp_credentials
  /\ final_reasoning' = final_reasoning
  /\ dispatched' = dispatched
  /\ gate_log' = gate_log

\* C11: get_model_response raises only after max_retries failed calls; the
\* failed calls and the exception change neither Conversation, Vault nor
\* final reasoning and run no handler; run_one_iteration returns COMPLETE to
\* agent_loop, which then returns without an exception.
C11_ExhaustedModelCallEndsQuietly ==
  /\ [](pc = "raised" => calls = max_retries /\ error = None)
  /\ [][ /\ (pc = "get_model_response" /\ pc' \in { "get_model_response", "raised" })
             => NothingExecuted
         /\ (pc = "raised")
             => /\ NothingExecuted
                /\ status' = "COMPLETE" /\ pc' = "agent_loop" /\ error' = None
         /\ (pc = "agent_loop" /\ status = "COMPLETE")
             => /\ NothingExecuted
                /\ pc' = "done" /\ error' = None ]_vars

\* C11 witness: every attempt of a later iteration has failed, after handlers
\* have run and the Vault was filled
C11_Witness ==
  /\ pc = "raised"
  /\ calls = DEFAULT_MAX_RETRIES
  /\ dispatched # << >>
  /\ temp_credentials # EmptyDict

\* the candidate of the response of this iteration
Candidate == response[1].candidates[1]

\* the response of this iteration has a candidate
HasCandidate == response # None /\ response[1].candidates # << >>

\* the Parts of the candidate (none when it has no content)
PartsOf(candidate) ==
  IF candidate.content = None THEN << >> ELSE candidate.content[1].parts

\* the candidate requests no action / says nothing
NoRequests(candidate) ==
  \A i \in 1..Len(PartsOf(candidate)) : PartsOf(candidate)[i].kind # "function_call"

NoText(candidate) ==
  \A i \in 1..Len(PartsOf(candidate)) :
    PartsOf(candidate)[i].kind = "text" => PartsOf(candidate)[i].text = << >>

\* the Conversation after the candidate's content, if any, was appended
WithModelTurn(conv, candidate) ==
  IF candidate.content = None THEN conv ELSE Append(conv, candidate.content[1])

\* C12: when the model service answers with a candidate without requests
\* and without text whose finish reason is MALFORMED_FUNCTION_CALL, the
\* iteration returns CONTINUE, runs no handler, asks no confirmation and
\* appends nothing but the candidate's own content (no user Turn); and from
\* the loop test with status CONTINUE the only step is the next model call.
C12_MalformedResponseIsRetried ==
  /\ [][ (/\ pc = "get_model_response"
          /\ response' # None /\ response'[1].candidates # << >>
          /\ NoRequests(response'[1].candidates[1])
          /\ NoText(response'[1].candidates[1])
          /\ response'[1].candidates[1].finish_reason = "MALFORMED_FUNCTION_CALL")
         => /\ status' = "CONTINUE" /\ pc' = "agent_loop" /\ error' = None
            /\ contents' = WithModelTurn(contents, response'[1].candidates[1])
            /\ temp_credentials' = temp_credentials
            /\ final_reasoning' = final_reasoning
            /\ dispatched' = dispatched
            /\ gate_log' = gate_log ]_vars
  /\ [][ (pc = "agent_loop" /\ status = "CONTINUE")
         => /\ pc' = "get_model_response" /\ calls' = 0
            /\ NothingExecuted ]_vars

\* C12 witness: a later iteration has just returned after such a response
C12_Witness ==
  /\ pc = "agent_loop" /\ status = "CONTINUE"
  /\ HasCandidate
  /\ NoRequests(Candidate) /\ NoText(Candidate)
  /\ Candidate.finish_reason = "MALFORMED_FUNCTION_CALL"
  /\ dispatched # << >>
  /\ Len(contents) + 2 <= max_turns

\* the texts of the Parts, in order, with one space between two of them
RECURSIVE JoinedText(_)
JoinedText(parts) ==
  IF parts = << >> THEN << >>
  ELSE LET first == IF Head(parts).kind = "text" THEN Head(parts).text ELSE << >>
           rest  == JoinedText(Tail(parts))
       IN IF first = << >> THEN rest
          ELSE IF rest = << >> THEN first
          ELSE first \o << " " >> \o rest

\* C13: when the model service answers with a candidate without requests
\* whose text is not empty, the iteration returns COMPLETE with
\* final_reasoning set to that text, runs no handler, asks no confirmation
\* and appends nothing but the candidate's own content; from the loop test
\* with status COMPLETE the only step is the return of agent_loop, and
\* nothing happens after it.
C13_TextOnlyResponseEndsLoop ==
  /\ [][ (/\ pc = "get_model_response"
          /\ response' # None /\ response'[1].candidates # << >>
          /\ NoRequests(response'[1].candidates[1])
          /\ JoinedText(PartsOf(response'[1].candidates[1])) # << >>)
         => /\ status' = "COMPLETE" /\ pc' = "agent_loop" /\ error' = None
            /\ final_reasoning' = << JoinedText(PartsOf(response'[1].candidates[1])) >>
            /\ contents' = WithModelTurn(contents, response'[1].candidates[1])
            /\ temp_credentials' = temp_credentials
            /\ dispatched' = dispatched
            /\ gate_log' = gate_log ]_vars
  /\ [][ (pc = "agent_loop" /\ status = "COMPLETE")
         => /\ pc' = "done" /\ calls' = 0 /\ response' = response
            /\ NothingExecuted ]_vars
  /\ [][ pc = "done" => (UNCHANGED agent_vars) ]_vars

\* C13 witness: the loop has ended on a candidate with two texts, after
\* handlers have run
C13_Witness ==
  /\ pc = "done" /\ status = "COMPLETE"
  /\ HasCandidate /\ NoRequests(Candidate)
  /\ Len(PartsOf(Candidate)) = 2
  /\ final_reasoning = << << "o", "k", " ", "o", "k" >> >>
  /\ dispatched # << >>

\* the action-result Part that answers the request of record rec, when the
\* user Turn after the request's Turn has one result per request
ResultOf(rec) == contents[rec.turn + 1].parts[rec.index].function_response

Answered(rec) ==
  /\ Len(contents) > rec.turn
  /\ contents[rec.turn + 1].role = "user"
  /\ Len(contents[rec.turn + 1].parts) = Len(CallsOfTurn(rec.turn))

\* C14 as stated: the result returned for a request whose confirmation was
\* resolved to CONTINUE has safety_acknowledgement = "true" in its response
\* mapping, for a built-in action and for a custom tool alike.
C14_AcknowledgementInEveryResult ==
  \A g \in 1..Len(gate_log) :
    (gate_log[g].decision = "CONTINUE" /\ Answered(gate_log[g])) =>
      /\ dict_has(ResultOf(gate_log[g]).response, "safety_acknowledgement")
      /\ ResultOf(gate_log[g]).response["safety_acknowledgement"] = "true"

\* what does hold: the result of a confirmed built-in action is acknowledged
C14_BuiltInResultAcknowledged ==
  \A g \in 1..Len(gate_log) :
    (/\ gate_log[g].decision = "CONTINUE" /\ Answered(gate_log[g])
     /\ RequestOf(gate_log[g]).name \in PREDEFINED_COMPUTER_USE_FUNCTIONS) =>
      /\ dict_has(ResultOf(gate_log[g]).response, "safety_acknowledgement")
      /\ ResultOf(gate_log[g]).response["safety_acknowledgement"] = "true"

\* a confirmed custom-tool request has been answered
C14_CustomToolConfirmed ==
  \E g \in 1..Len(gate_log) :
    /\ gate_log[g].decision = "CONTINUE" /\ Answered(gate_log[g])
    /\ RequestOf(gate_log[g]).name = "multiply_numbers"

\* the loop is at a request that carries a safety decision for which no
\* confirmation has been resolved yet
GateOpen ==
  /\ pc = "for"
  /\ CarriesSafetyDecision(function_calls[fc_index])
  /\ ~\E g \in 1..Len(gate_log) :
        gate_log[g].turn = Len(contents) /\ gate_log[g].index = fc_index

\* the decision field of the safety decision of the request the loop is at
DecisionAtGate == function_calls[fc_index].args["safety_decision"].decision

\* the record of a resolution of the open gate
ResolutionOfGate(decision) ==
  [turn |-> Len(contents), index |-> fc_index, decision |-> decision]

\* the agent was constructed with trust_mode=True
TrustModeOn == Sessions[session].trust_mode

\* C15: in trust mode input() is never called and every confirmation that
\* is resolved is resolved to CONTINUE; from an open gate whose decision is
\* require_confirmation the only step is that resolution, after which the
\* loop is still at the request (which it then dispatches).
C15_TrustModeNeverPrompts ==
  /\ [](TrustModeOn =>
          /\ prompted = None /\ invalid_inputs = 0
          /\ \A g \in 1..Len(gate_log) : gate_log[g].decision = "CONTINUE")
  /\ [][ (TrustModeOn /\ GateOpen /\ DecisionAtGate = REQUIRE_CONFIRMATION)
         => /\ gate_log' = Append(gate_log, ResolutionOfGate("CONTINUE"))
            /\ pc' = "for" /\ fc_index' = fc_index
            /\ dispatched' = dispatched ]_vars

\* C15 witness: three confirmations were resolved in trust mode and the
\* three requests were dispatched
C15_Witness ==
  /\ TrustModeOn
  /\ Len(gate_log) = 3
  /\ Len(dispatched) = 3
  /\ \A i \in 1..3 : CarriesSafetyDecision(RequestOf(dispatched[i]))

\* the answers that confirm and the answers that refuse, in lower case
Yes == { << "y" >>, << "y","e" >>, << "y","e","s" >> }
No == { << "n" >>, << "n","o" >> }

\* the confirmations resolved for the gate the answers of p were read for
ResolvedFor(p) ==
  { g \in 1..Len(gate_log) :
      gate_log[g].turn = p.turn /\ gate_log[g].index = p.index }

\* C16: without trust mode, of the answers read for a confirmation every
\* one but the last was, in lower case, none of y, ye, yes, n, no; if the
\* last is n or no the confirmation is resolved once, to TERMINATE; if it is
\* y, ye or yes it is resolved once, to CONTINUE; otherwise it is not
\* resolved and the loop is still at that request.  From an open gate the
\* only step is one more input() for it, and nothing is dispatched by it.
C16_PromptUntilAccepted ==
  /\ []((~TrustModeOn /\ prompted # None) =>
          LET p == prompted[1]
              n == Len(p.answers)
              last == str_lower(p.answers[n])
          IN /\ n >= 1
             /\ \A k \in 1..(n - 1) : str_lower(p.answers[k]) \notin (Yes \cup No)
             /\ last \in No =>
                  /\ Cardinality(ResolvedFor(p)) = 1
                  /\ \A g \in ResolvedFor(p) : gate_log[g].decision = "TERMINATE"
             /\ last \in Yes =>
                  /\ Cardinality(ResolvedFor(p)) = 1
                  /\ \A g \in ResolvedFor(p) : gate_log[g].decision = "CONTINUE"
             /\ last \notin (Yes \cup No) =>
                  /\ ResolvedFor(p) = {}
                  /\ GateOpen /\ Len(contents) = p.turn /\ fc_index = p.index)
  /\ [][ (~TrustModeOn /\ GateOpen /\ DecisionAtGate = REQUIRE_CONFIRMATION)
         => /\ prompted' # None
            /\ prompted'[1].turn = Len(contents) /\ prompted'[1].index = fc_index
            /\ Len(prompted'[1].answers) =
                 IF prompted # None /\ ResolvedFor(prompted[1]) = {}
                 THEN Len(prompted[1].answers) + 1 ELSE 1
            /\ dispatched' = dispatched ]_vars

\* C16 witness: "maybe" was asked again and "YES" resolved the confirmation
C16_Witness ==
  /\ ~TrustModeOn /\ prompted # None
  /\ prompted[1].answers = << << "m","a","y","b","e" >>, << "Y","E","S" >> >>
  /\ \E g \in ResolvedFor(prompted[1]) : gate_log[g].decision = "CONTINUE"

UnknownSafetyDecision == << "ValueError: Unknown safety decision" >>

\* C17: from an open gate whose decision field is not require_confirmation
\* the only step raises the ValueError of the unknown safety decision out of
\* agent_loop, in trust mode or not, without an input(), a resolution or a
\* handler; nothing happens after an exception has left agent_loop; and no
\* request with such a decision is ever among the dispatched ones.
C17_UnknownSafetyDecisionRaises ==
  /\ [][ (GateOpen /\ DecisionAtGate # REQUIRE_CONFIRMATION)
         => /\ pc' = "crashed" /\ error' = UnknownSafetyDecision
            /\ prompted' = prompted /\ invalid_inputs' = invalid_inputs
            /\ NothingExecuted ]_vars
  /\ [][ pc = "crashed" => (UNCHANGED agent_vars) ]_vars
  /\ [](\A i \in 1..Len(dispatched) :
          CarriesSafetyDecision(RequestOf(dispatched[i])) =>
            RequestOf(dispatched[i]).args["safety_decision"].decision
              = REQUIRE_CONFIRMATION)

\* C17 witness: without trust mode, the second request of a Turn had an
\* unknown decision, after the first one was confirmed at the prompt
C17_Witness ==
  /\ pc = "crashed" /\ error = UnknownSafetyDecision
  /\ ~TrustModeOn
  /\ fc_index = 2
  /\ \E g \in 1..Len(gate_log) :
       gate_log[g].turn = Len(contents) /\ gate_log[g].index = 1
  /\ invalid_inputs = 1
  /\ Len(dispatched) >= 1 /\ dispatched[Len(dispatched)].turn = Len(contents)

\* the names the agent of the session dispatches: the built-in actions,
\* BrowserAgent's custom tools and, for a FormAgent, its own tools
Registered ==
  PREDEFINED_COMPUTER_USE_FUNCTIONS
  \cup { "multiply_numbers", "get_available_credentials", "perform_secure_login" }
  \cup (IF Sessions[session].agent_class = "FormAgent"
        THEN { "read_data_from_json" } \cup
             (IF Sessions[session].can_ask_for_help THEN { "ask_for_help" } ELSE {})
        ELSE {})

UnsupportedFunction == << "ValueError: Unsupported function" >>

\* the loop is at a request whose handler is the next thing to run
ReadyToDispatch == pc = "for" /\ ~GateOpen

\* C18: when the loop is about to dispatch a request whose name the agent
\* does not dispatch, the only step raises the ValueError of the unsupported
\* function out of agent_loop: no handler runs, no user Turn is appended,
\* and nothing happens afterwards; every handler that ever ran belongs to a
\* name the agent dispatches.
C18_UnsupportedFunctionRaises ==
  /\ [][ (ReadyToDispatch /\ function_calls[fc_index].name \notin Registered)
         => /\ pc' = "crashed" /\ error' = UnsupportedFunction
            /\ NothingExecuted ]_vars
  /\ [][ (pc \in { "crashed", "done" }) => (UNCHANGED agent_vars) ]_vars
  /\ [](\A i \in 1..Len(dispatched) : dispatched[i].name \in Registered)

\* C18 witness: a FormAgent constructed without ask_for_help was asked for
\* it in the second request of a Turn, after the first one was dispatched
C18_Witness ==
  /\ pc = "crashed" /\ error = UnsupportedFunction
  /\ Sessions[session].agent_class = "FormAgent"
  /\ ~Sessions[session].can_ask_for_help
  /\ fc_index = 2 /\ function_calls[2].name = "ask_for_help"
  /\ Len(dispatched) >= 1 /\ dispatched[Len(dispatched)].turn = Len(contents)
  /\ contents[Len(contents)].role = "model"

EmptyResponse == << "ValueError: Empty response" >>

\* C19: when generate_content returns a response without candidates, the
\* step raises the ValueError of the empty response out of agent_loop: the
\* status stays CONTINUE (the iteration does not return COMPLETE), and
\* neither that step nor the failed attempts before it change Conversation,
\* Vault or final reasoning or run a handler; nothing happens afterwards.
C19_EmptyResponseRaises ==
  /\ [][ (/\ pc = "get_model_response"
          /\ response' # None /\ response'[1].candidates = << >>)
         => /\ pc' = "crashed" /\ error' = EmptyResponse
            /\ status' = "CONTINUE"
            /\ NothingExecuted ]_vars
  /\ [][ (pc = "get_model_response" /\ pc' = "get_model_response")
         => NothingExecuted ]_vars
  /\ [][ pc = "crashed" => (UNCHANGED agent_vars) ]_vars
  /\ [](error = EmptyResponse => pc = "crashed" /\ status = "CONTINUE")

\* C19 witness: a later iteration got a response without candidates, on the
\* third attempt, after handlers have run
C19_Witness ==
  /\ pc = "crashed" /\ error = EmptyResponse
  /\ response # None /\ response[1].candidates = << >>
  /\ attempt = 2
  /\ dispatched # << >>
  /\ contents[Len(contents)].role = "user"

\* the keys the result of a credential retrieval may have
HasExactKeys(mapping) ==
  DOMAIN mapping = IF mapping.success
                   THEN { "success", "message", "instruction" }
                   ELSE { "success", "message" }

IsLoginResult(fr) == fr.name = "perform_secure_login"

\* C20: every result of perform_secure_login, in a user Turn of the
\* Conversation or among the responses being collected, has exactly the keys
\* success, message and instruction when success is true and exactly success
\* and message when it is false (so never username or password); and a
\* result with success true is only returned with the Vault filled.
C20_LoginResultKeys ==
  /\ \A t \in 2..Len(contents) :
       contents[t].role = "user" =>
         \A i \in 1..Len(contents[t].parts) :
           IsLoginResult(contents[t].parts[i].function_response) =>
             /\ HasExactKeys(contents[t].parts[i].function_response.response)
             /\ contents[t].parts[i].function_response.response.success
                  => temp_credentials # EmptyDict
  /\ \A i \in 1..Len(function_responses) :
       IsLoginResult(function_responses[i]) =>
         /\ HasExactKeys(function_responses[i].response)
         /\ function_responses[i].response.success => temp_credentials # EmptyDict

\* C20 witness: one user Turn holds the result of a failed retrieval and
\* the result of a successful one
C20_Witness ==
  \E t \in 2..Len(contents) :
    /\ contents[t].role = "user" /\ Len(contents[t].parts) = 2
    /\ IsLoginResult(contents[t].parts[1].function_response)
    /\ IsLoginResult(contents[t].parts[2].function_response)
    /\ ~contents[t].parts[1].function_response.response.success
    /\ contents[t].parts[2].function_response.response.success

(* ------------------------------------------------------------------ *)
(* The backend's scope                                                 *)
(* ------------------------------------------------------------------ *)

Acquired == << "enter" >>
Released == << "enter", "exit" >>

LoopEnded == pc \in { "done", "crashed" }

\* the step ran a handler that called the backend
BackendCalled ==
  /\ dispatched' # dispatched
  /\ dispatched'[Len(dispatched')].call # None

\* C22: the backend is entered before agent_loop starts and exited exactly
\* once after it has ended, by its return or by an exception: the log is
\* empty exactly while main has not reached the loop, it only ever reads
\* enter, then exit, the exit is logged only after the loop has ended, every
\* ended loop leads to it, and every backend call happens between the two.
C22_BackendScopedToLoop ==
  /\ [](pc = "main" <=> backend_log = << >>)
  /\ [](backend_log \in { << >>, Acquired, Released })
  /\ [](backend_log = Released => LoopEnded)
  /\ [][ BackendCalled => backend_log = Acquired /\ backend_log' = Acquired ]_vars
  /\ [][ backend_log # Released ]_vars
  /\ (LoopEnded ~> backend_log = Released)

\* C22 witness: the backend was released after an unsupported function
\* raised out of agent_loop, and backend calls were made before
C22_Witness ==
  /\ backend_log = Released
  /\ pc = "crashed" /\ error = << "ValueError: Unsupported function" >>
  /\ \E i \in 1..Len(dispatched) : dispatched[i].call # None

(* ------------------------------------------------------------------ *)
(* The Coordinate Mapper                                               *)
(* ------------------------------------------------------------------ *)

\* the screen dimension of an axis
DimensionOf(axis) == IF axis = "x" THEN 1440 ELSE 900

Floor(v, d) == (v * d) \div 1000

Denormalized == pc = "returned" /\ call_result # None

\* C21: for every v in 0..1000 and both axes, the value returned is
\* floor(v * d / 1000) with d the screen dimension of the axis.
C21_DenormalizeIsFloor ==
  Denormalized =>
    call_result[1] = Floor(call_args.v, DimensionOf(call_args.axis))

\* what does hold: 0 maps to 0, 1000 maps to d, and the value returned is
\* the floor or one below it
C21_EndsAndWithinOne ==
  Denormalized =>
    LET d == DimensionOf(call_args.axis)
    IN /\ call_args.v = 0 => call_result[1] = 0
       /\ call_args.v = NORMALIZED_MAX => call_result[1] = d
       /\ call_result[1] \in { Floor(call_args.v, d), Floor(call_args.v, d) - 1 }

(* ------------------------------------------------------------------ *)
(* The Conversation over time                                          *)
(* ------------------------------------------------------------------ *)

\* new is old, or old without the attachment of a built-in action-result
PartKept(old, new) ==
  \/ new = old
  \/ /\ IsBuiltInResult(old)
     /\ old.function_response.parts # None
     /\ new = [old EXCEPT !.function_response.parts = None]

TurnKept(old, new) ==
  /\ new.role = old.role
  /\ Len(new.parts) = Len(old.parts)
  /\ \A k \in 1..Len(old.parts) : PartKept(old.parts[k], new.parts[k])

\* C23: every step leaves the Turns the Conversation already has in place,
\* with their role and their Parts, except that a built-in action-result may
\* lose its attachment (name and response stay as they were); a Turn is
\* changed in this way only by the step that appends a user Turn.
C23_ConversationAppendOnly ==
  [][ /\ Len(contents') >= Len(contents)
      /\ \A i \in 1..Len(contents) : TurnKept(contents[i], contents'[i])
      /\ (\E i \in 1..Len(contents) : contents'[i] # contents[i])
           => /\ Len(contents') = Len(contents) + 1
              /\ contents'[Len(contents')].role = "user" ]_vars

\* C23 witness: an old Turn holds a built-in result that has lost its
\* attachment beside a custom-tool result
C23_Witness ==
  \E t \in 1..Len(contents) :
    /\ contents[t].role = "user"
    /\ Len(contents[t].parts) = 2
    /\ IsBuiltInResult(contents[t].parts[1])
    /\ contents[t].parts[1].function_response.parts = None
    /\ contents[t].parts[1].function_response.response # EmptyDict
    /\ contents[t].parts[2].function_response.name = "multiply_numbers"
    /\ contents[t].parts[2].function_response.response = [result |-> 6]

(* ------------------------------------------------------------------ *)
(* The Vault over time                                                 *)
(* ------------------------------------------------------------------ *)

\* the dispatched credential retrievals that succeeded
Retrievals ==
  { i \in 1..Len(dispatched) :
      /\ dispatched[i].name = "perform_secure_login"
      /\ perform_secure_login(environ, RequestOf(dispatched[i]).args.site).success }

\* main has left the `with` block: the loop has ended and the backend is
\* released
RunOver == LoopEnded /\ backend_log = Released

\* C24: the Vault is empty as long as no credential retrieval has succeeded,
\* and it is empty when the run is over.
C24_VaultEmptyOutsideItsLifetime ==
  /\ Retrievals = {} => temp_credentials = EmptyDict
  /\ RunOver => temp_credentials = EmptyDict

\* the first half on its own
C24_VaultEmptyUntilRetrieval ==
  Retrievals = {} => temp_credentials = EmptyDict

\* the pair stays in the Vault after the loop has ended, however it ended
C24_VaultKeptAfterLoop ==
  [][ LoopEnded => temp_credentials' = temp_credentials ]_vars

(* ------------------------------------------------------------------ *)
(* Coordinates on their way to the backend                             *)
(* ------------------------------------------------------------------ *)

ByWidth(v) == denormalize(v, 1440)
ByHeight(v) == denormalize(v, 900)

PointerActions ==
  { "click_at", "hover_at", "type_text_at", "scroll_at", "drag_and_drop" }

Vertical == { "up", "down" }
Horizontal == { "left", "right" }

MagnitudeOf(args) == IF "magnitude" \in DOMAIN args THEN args.magnitude ELSE 800

UnknownDirection == << "ValueError: Unknown direction" >>

\* the arguments handed to the backend by dispatch record rec are the
\* denormalized arguments of its request
Forwarded(rec) ==
  LET args == RequestOf(rec).args
      sent == rec.call[1].kwargs
  IN /\ sent.x = ByWidth(args.x)
     /\ sent.y = ByHeight(args.y)
     /\ rec.name = "drag_and_drop" =>
          /\ sent.destination_x = ByWidth(args.destination_x)
          /\ sent.destination_y = ByHeight(args.destination_y)
     /\ rec.name = "scroll_at" =>
          /\ args.direction \in Vertical \cup Horizontal
          /\ sent.direction = args.direction
          /\ sent.magnitude = IF args.direction \in Vertical
                              THEN ByHeight(MagnitudeOf(args))
                              ELSE ByWidth(MagnitudeOf(args))

\* C25: every backend call of click, hover, type-text, scroll-at and
\* drag-and-drop carries x and destination_x scaled by the width and y and
\* destination_y scaled by the height; scroll-at carries its magnitude (800
\* when absent) scaled by the height for up and down and by the width for
\* left and right; a scroll-at with any other direction raises out of
\* agent_loop and no backend call is made for it.
C25_CoordinatesDenormalized ==
  /\ [](\A i \in 1..Len(dispatched) :
          dispatched[i].name \in PointerActions =>
            dispatched[i].call # None /\ Forwarded(dispatched[i]))
  /\ [][ (/\ ReadyToDispatch
          /\ function_calls[fc_index].name = "scroll_at"
          /\ function_calls[fc_index].args.direction \notin Vertical \cup Horizontal)
         => /\ pc' = "crashed" /\ error' = UnknownDirection
            /\ dispatched' = dispatched
            /\ contents' = contents ]_vars

\* C25 witness: a scroll to the left without magnitude went out with 800
\* scaled by the width, a drag went out with its four coordinates scaled,
\* and the scroll-at after it raised for its direction
C25_Witness ==
  /\ pc = "crashed" /\ error = UnknownDirection
  /\ \E i \in 1..Len(dispatched) :
       /\ dispatched[i].name = "scroll_at"
       /\ dispatched[i].call[1].kwargs.magnitude = 1152
  /\ LastDispatched.name = "drag_and_drop"
  /\ LastDispatched.call[1].kwargs =
       [x |-> 144, y |-> 180, destination_x |-> 827, destination_y |-> 900]

(* ------------------------------------------------------------------ *)
(* The Conversation the model service is called with                   *)
(* ------------------------------------------------------------------ *)

\* the user Turns with a built-in action-result that still has its attachment
AttachedTurns == { t \in ScreenshotTurns : AttachedIn(t) # {} }

\* generate_content is being called with the Conversation
PassedToModel == pc = "get_model_response"

\* C26: whenever the model service is called, at most 3 user Turns of the
\* Conversation hold a built-in action-result with its attachment, and they
\* are the most recent of the Turns that hold a built-in action-result.
C26_AtMostThreeScreenshotTurnsSent ==
  PassedToModel =>
    /\ Cardinality(AttachedTurns) <= 3
    /\ AttachedTurns = MostRecent(ScreenshotTurns, 3)

\* C26 witness: the model service is called with a Conversation of four
\* Turns of built-in results, one of them mixed with a custom-tool result,
\* and the empty model Turn of a malformed call that was retried
C26_Witness ==
  /\ PassedToModel
  /\ Cardinality(ScreenshotTurns) = 4
  /\ \E t \in ScreenshotTurns : Len(contents[t].parts) > Cardinality(BuiltInIn(t))
  /\ \E t \in 1..Len(contents) : contents[t].role = "model" /\ contents[t].parts = << >>

(* ------------------------------------------------------------------ *)
(* The order of handlers within an iteration                           *)
(* ------------------------------------------------------------------ *)

\* the indices of the requests of Turn t whose handler returned before the
\* i-th dispatch record was written / at all
DispatchedBefore(t, i) ==
  { dispatched[j].index : j \in { k \in 1..(i - 1) : dispatched[k].turn = t } }

DispatchedOf(t) == DispatchedBefore(t, Len(dispatched) + 1)

\* C27: the i-th handler to return within a Turn is the handler of the
\* Turn's i-th request (so the requests are handled in their order, each at
\* most once); when the confirmation of a request has been resolved, the
\* handlers of all requests before it have returned and no later one has;
\* and a user Turn of results follows only a model Turn all of whose
\* requests were handled.
C27_HandlersInRequestOrder ==
  /\ \A i \in 1..Len(dispatched) :
       LET rec == dispatched[i]
       IN /\ DispatchedBefore(rec.turn, i) = 1..(rec.index - 1)
          /\ rec.index <= Len(CallsOfTurn(rec.turn))
          /\ rec.name = CallsOfTurn(rec.turn)[rec.index].name
  /\ \A g \in 1..Len(gate_log) :
       /\ 1..(gate_log[g].index - 1) \subseteq DispatchedOf(gate_log[g].turn)
       /\ \A j \in DispatchedOf(gate_log[g].turn) :
            j > gate_log[g].index => gate_log[g].decision = "CONTINUE"
  /\ \A i \in 1..Len(dispatched) : \A g \in 1..Len(gate_log) :
       (dispatched[i].turn = gate_log[g].turn /\ dispatched[i].index > gate_log[g].index)
         => gate_log[g].index \in DispatchedBefore(dispatched[i].turn, i)
  /\ \A t \in 2..Len(contents) :
       (contents[t].role = "user" /\ contents[t - 1].role = "model")
         => DispatchedOf(t - 1) = 1..Len(CallsOfTurn(t - 1))

\* C27 witness: an iteration has returned CONTINUE for a Turn of two
\* requests, the second of which was confirmed after the first was handled
C27_Witness ==
  /\ pc = "agent_loop" /\ status = "CONTINUE"
  /\ Len(contents) >= 3
  /\ contents[Len(contents)].role = "user"
  /\ Len(CallsOfTurn(Len(contents) - 1)) = 2
  /\ DispatchedOf(Len(contents) - 1) = { 1, 2 }
  /\ \E g \in 1..Len(gate_log) :
       gate_log[g].turn = Len(contents) - 1 /\ gate_log[g].index = 2

(* ------------------------------------------------------------------ *)
(* Writes to the Vault                                                 *)
(* ------------------------------------------------------------------ *)

\* the request the loop is about to dispatch
NextRequest == function_calls[fc_index]

\* the loop is about to dispatch a credential retrieval / a type action
AtRetrieval == ReadyToDispatch /\ NextRequest.name = "perform_secure_login"
AtTyping == ReadyToDispatch /\ NextRequest.name = "type_text_at"

\* what the retrieval about to be dispatched finds in the store
Found == perform_secure_login(environ, NextRequest.args.site)

\* C28: the step of a credential retrieval that fails leaves the Vault as it
\* was, filled or empty; the step of one that succeeds makes the Vault the
\* pair retrieved; no other step changes the Vault; and a type action
\* dispatched while the Vault is filled forwards the Vault's entry for a
\* placeholder, whatever retrievals failed in between.
C28_FailedRetrievalKeepsVault ==
  [][ /\ (AtRetrieval /\ ~Found.success) => temp_credentials' = temp_credentials
      /\ (AtRetrieval /\ Found.success) =>
           temp_credentials' = [username |-> Found.username[1],
                                password |-> Found.password[1]]
      /\ temp_credentials' # temp_credentials => AtRetrieval /\ Found.success
      /\ (AtTyping /\ temp_credentials # EmptyDict
                   /\ NextRequest.args.text = "{{PASSWORD}}")
           => dispatched'[Len(dispatched')].call[1].kwargs.text
                = temp_credentials["password"] ]_vars

\* C28 witness: the pair of one site was replaced by the pair of another,
\* then a retrieval failed for an empty password, and the password typed
\* after it was the one of the second site
C28_Witness ==
  /\ temp_credentials = [username |-> "carol", password |-> "pa55"]
  /\ Len(dispatched) = 4
  /\ dispatched[1].name = "perform_secure_login"
  /\ RequestOf(dispatched[1]).args.site = << "g","h" >>
  /\ RequestOf(dispatched[2]).args.site = << "g","l" >>
  /\ RequestOf(dispatched[3]).args.site = << "g","x" >>
  /\ dispatched[4].name = "type_text_at"
  /\ dispatched[4].call[1].kwargs.text = "pa55"

(* ------------------------------------------------------------------ *)
(* The final reasoning                                                 *)
(* ------------------------------------------------------------------ *)

\* the iteration got no response: every attempt of its model call failed
Exhausted == status = "COMPLETE" /\ response = None

\* the last model Turn the Conversation holds
LastModelTurn ==
  contents[CHOOSE t \in 1..Len(contents) :
             /\ contents[t].role = "model"
             /\ \A u \in (t + 1)..Len(contents) : contents[u].role # "model"]

\* C29: the final reasoning is unset until agent_loop is entered; a step
\* changes it only if it is the return of COMPLETE for a response whose
\* candidate has no requests; it is unset whenever the loop was ended by a
\* refused confirmation or by the exhaustion of the model call; and no step
\* changes it once the status is COMPLETE.
C29_FinalReasoningOnlyOnCompletion ==
  /\ [](pc = "main" => final_reasoning = None)
  /\ [][ final_reasoning' # final_reasoning
           => /\ pc = "get_model_response"
              /\ status' = "COMPLETE" /\ pc' = "agent_loop"
              /\ NoRequests(response'[1].candidates[1]) ]_vars
  /\ []((Terminated \/ Exhausted) => final_reasoning = None)
  /\ [][ status = "COMPLETE" => final_reasoning' = final_reasoning ]_vars

\* C29 witness: the loop has ended by a refusal at the prompt for a model
\* Turn that carried text beside the request, and nothing was kept of it
C29_Witness ==
  /\ pc = "done" /\ Terminated
  /\ final_reasoning = None
  /\ \E i \in 1..Len(LastModelTurn.parts) :
       LastModelTurn.parts[i].kind = "text" /\ LastModelTurn.parts[i].text # << >>
  /\ dispatched # << >>

(* ------------------------------------------------------------------ *)
(* Listing and retrieval of credentials                                *)
(* ------------------------------------------------------------------ *)

RetrievedListed == pc = "retrieved"

\* the store has only upper-case names and no empty value
PlainStore ==
  \A i \in 1..Len(call_args.environ) :
    /\ call_args.environ[i][1] = str_upper(call_args.environ[i][1])
    /\ call_args.environ[i][2] # ""

\* C30: for every store, the retrieval of a site that the listing reported
\* succeeds and fills the Vault.
C30_ListedSitesRetrievable ==
  RetrievedListed =>
    /\ call_result.login[1].success
    /\ temp_credentials # EmptyDict

\* what does hold: it is so for the stores whose names are in upper case and
\* whose values are not empty, under SITE_USERNAME and under SITE_USER
C30_ListedRetrievableInPlainStores ==
  (RetrievedListed /\ PlainStore) =>
    /\ call_result.login[1].success
    /\ temp_credentials = [username |-> "alice", password |-> "alice"]

====
